---- MODULE Spec2Model ----
(***************************************************************************)
(* A model of heartkit's Icentia11k dataset code                           *)
(* (src/heartkit/datasets/icentia11k.py, src/heartkit/defines.py,          *)
(* src/heartkit/datasets/utils.py).                                        *)
(*                                                                         *)
(* Spec     : the dataset's functions (get_complete_beats, the label       *)
(*            resolvers _get_rhythm_label, _get_beat_label and             *)
(*            _get_heart_rate_label, _split_train_test_patients, and the   *)
(*            rhythm generator's selection for one patient) applied to     *)
(*            inputs drawn from bounded sets.                              *)
(* SpecGen  : the task sample generators (rhythm, beat, heart rate) pulled *)
(*            by a consumer over a finite stream of patients.              *)
(* SpecPat  : the patient generators (uniform, weighted random) pulled,    *)
(*            closed or dropped by a consumer.                             *)
(* SpecBuf  : buffered_generator pulled over a finite source.              *)
(* SpecPipe : a task sample generator pulled over a uniform patient        *)
(*            generator.                                                   *)
(* SpecPatLive : the uniform patient generator with the call of next() and *)
(*            its return as separate steps, the body run fairly.           *)
(*                                                                         *)
(* Python values are written as follows: None is the empty tuple <<>> and  *)
(* a present optional value v is <<v>>; arrays and lists are sequences,    *)
(* whose Python position k is the TLA+ position k+1; the outcome of a call *)
(* is a record [kind, val], kind "return" with the returned value or kind  *)
(* "raise" with the name of the exception.                                 *)
(***************************************************************************)
EXTENDS Integers, Sequences, FiniteSets, TLC

VARIABLES
    op,         \* the resolver function last called, "none" before a call
    args,       \* its arguments
    ret,        \* its outcome
    task,       \* the task whose sample generator runs, "none" before
    cfg,        \* frame_size and samples_per_patient of the generator
    gpc,        \* the generator: "new", "next_patient", "in_patient",
                \* "raised" or "done"
    pulled,     \* the number of patients pulled from the patient generator
    segments,   \* the segments of the current patient
    queue,      \* the current patient's selections not yet visited
    reads,      \* the signal windows <<seg_idx, start, end>> read by the
                \* generator's last step
    yielded,    \* the (windows, label) pairs yielded for this patient
    store,      \* the patient ids that have a file in the dataset directory
    pgen,       \* the arguments of the patient generator, <<>> before one
                \* is made
    ppc,        \* the patient generator: "none", "created", "suspended" (at
                \* its yield), "spinning", "returned", "raised", "closed", or
                \* "dropped" (suspended and no longer referenced)
    order,      \* the generator's array of patient ids
    pos,        \* the position of its for loop in that array, from 1
    handles,    \* the numbers of the store handles that are open
    opened,     \* the number of store handles opened so far
    taken,      \* the patient ids the for loop has taken so far
    given,      \* the patient ids yielded so far
    err,        \* the exception the generator raised, None if none
    generator,  \* the elements of the source of a buffered generator
    buffer_size, \* its buffer_size
    consumed,   \* the number of source elements it has taken
    buffer,     \* its buffer
    bpc,        \* the buffered generator: "none", "created", "suspended"
                \* (at one of its yields) or "returned"
    buffers     \* the buffers it has yielded so far

resolver_vars == <<op, args, ret>>
generator_vars == <<task, cfg, gpc, pulled, segments, queue, reads, yielded>>
patient_vars == <<store, pgen, ppc, order, pos, handles, opened, taken, given, err>>
buffer_vars == <<generator, buffer_size, consumed, buffer, bpc, buffers>>
vars == <<op, args, ret, task, cfg, gpc, pulled, segments, queue, reads, yielded,
          store, pgen, ppc, order, pos, handles, opened, taken, given, err,
          generator, buffer_size, consumed, buffer, bpc, buffers>>

(***************************************************************************)
(* Bounds of the model.                                                    *)
(***************************************************************************)
MaxBeats == 3       \* longest beat index array handed to a resolver
MaxIdx == 6         \* largest sample index / window boundary
MaxRhythms == 2     \* longest (durations, labels) array pair
MaxDur == 2         \* largest single rhythm duration
MaxLabels == 3      \* longest beat label array handed to _get_beat_label
MaxPatients == 2    \* patients in the stream a generator consumes
MaxSegments == 2    \* segments of a patient
MaxMark == 3        \* largest sample index of a rhythm interval boundary
MaxIntervals == 2   \* rhythm intervals of a patient, over all its segments
MaxFree == 1        \* beat markers of a segment outside the two paddings
MaxSize == 7        \* longest signal of a segment of the heart-rate task
MaxPatientIds == 3  \* patient ids of the dataset directory, 0..MaxPatientIds-1
MaxDraws == 4       \* patients a consumer pulls from a patient generator
MaxSplitIds == 4    \* patient ids a train/validation split can be given
MaxRows == 3        \* rows of a rhythm label table of any shape
MaxSource == 4      \* elements of the source of a buffered generator
MaxBuffer == 3      \* largest buffer_size of a buffered generator

(***************************************************************************)
(* Python values.                                                          *)
(***************************************************************************)
None == <<>>
Some(v) == <<v>>
Return(v) == [kind |-> "return", val |-> v]
Raise(e) == [kind |-> "raise", val |-> e]

Min(a, b) == IF a <= b THEN a ELSE b
Max(a, b) == IF a >= b THEN a ELSE b

\* a[lo:hi] of a Python sequence: negative bounds count from the end, both
\* are clamped to the length, and an empty range gives an empty sequence.
PySlice(a, lo, hi) ==
    LET n == Len(a)
        l == IF lo < 0 THEN Max(0, n + lo) ELSE Min(lo, n)
        h == IF hi < 0 THEN Max(0, n + hi) ELSE Min(hi, n)
    IN  IF l >= h THEN <<>> ELSE SubSeq(a, l + 1, h)

\* All sequences over S of length at most n.
SeqsUpTo(S, n) == UNION {[1..k -> S] : k \in 0..n}

IsSorted(a) == \A i \in 1..(Len(a) - 1) : a[i] <= a[i + 1]

StrictlyIncreasing(a) == \A i \in 1..(Len(a) - 1) : a[i] < a[i + 1]

RECURSIVE SumSeq(_)
SumSeq(a) == IF a = <<>> THEN 0 ELSE a[1] + SumSeq(Tail(a))

(***************************************************************************)
(* Label alphabets.                                                        *)
(***************************************************************************)
IcentiaRhythm_noise == 0
IcentiaRhythm_normal == 1
IcentiaRhythm_afib == 2
IcentiaRhythm_aflut == 3
IcentiaRhythm_end == 4
IcentiaRhythm_unknown == 5

IcentiaRhythm ==
    {IcentiaRhythm_noise, IcentiaRhythm_normal, IcentiaRhythm_afib,
     IcentiaRhythm_aflut, IcentiaRhythm_end, IcentiaRhythm_unknown}

IcentiaRhythm_hi_priority == <<IcentiaRhythm_afib, IcentiaRhythm_aflut>>

IcentiaRhythm_lo_priority ==
    <<IcentiaRhythm_noise, IcentiaRhythm_normal, IcentiaRhythm_end,
      IcentiaRhythm_unknown>>

IcentiaBeat_undefined == 0
IcentiaBeat_normal == 1
IcentiaBeat_pac == 2
IcentiaBeat_pvc == 4

IcentiaBeat ==
    {IcentiaBeat_undefined, IcentiaBeat_normal, IcentiaBeat_pac, IcentiaBeat_pvc}

IcentiaBeat_hi_priority == <<IcentiaBeat_pac, IcentiaBeat_pvc>>

IcentiaBeat_lo_priority == <<IcentiaBeat_undefined, IcentiaBeat_normal>>

HeartRhythm_normal == 0
HeartRhythm_afib == 1
HeartRhythm_aflut == 2
HeartRhythm_noise == 3

HeartRhythm ==
    {HeartRhythm_normal, HeartRhythm_afib, HeartRhythm_aflut, HeartRhythm_noise}

HeartBeat_normal == 0
HeartBeat_pac == 1
HeartBeat_pvc == 2
HeartBeat_noise == 3

HeartBeat == {HeartBeat_normal, HeartBeat_pac, HeartBeat_pvc, HeartBeat_noise}

HeartRate_normal == 0
HeartRate_tachycardia == 1
HeartRate_bradycardia == 2
HeartRate_noise == 3

HeartRate ==
    {HeartRate_normal, HeartRate_tachycardia, HeartRate_bradycardia,
     HeartRate_noise}

\* A variant of HeartRhythmMap in which flutter keeps a label of its own.
HeartRhythmMap_flutter_kept ==
    (IcentiaRhythm_noise :> HeartRhythm_noise)
        @@ (IcentiaRhythm_normal :> HeartRhythm_normal)
        @@ (IcentiaRhythm_afib :> HeartRhythm_afib)
        @@ (IcentiaRhythm_aflut :> HeartRhythm_aflut)

\* The dictionaries from Icentia codes to task labels: a dictionary is a
\* function whose domain is its set of keys.
HeartRhythmMap ==
    (IcentiaRhythm_noise :> HeartRhythm_noise)
        @@ (IcentiaRhythm_normal :> HeartRhythm_normal)
        @@ (IcentiaRhythm_afib :> HeartRhythm_afib)
        @@ (IcentiaRhythm_aflut :> HeartRhythm_afib)

HeartBeatMap ==
    (IcentiaBeat_undefined :> HeartBeat_noise)
        @@ (IcentiaBeat_normal :> HeartBeat_normal)
        @@ (IcentiaBeat_pac :> HeartBeat_pac)
        @@ (IcentiaBeat_pvc :> HeartBeat_pvc)

\* d[key] of a dictionary: a missing key raises KeyError.
DictGet(d, key) ==
    IF key \in DOMAIN d THEN Return(d[key]) ELSE Raise("KeyError")

(***************************************************************************)
(* numpy helpers, as the calls in the source use them.                     *)
(***************************************************************************)
\* np.searchsorted(a, v, side): binary search for the insertion position
\* (Python position, 0..len) of v in the sorted array a.
RECURSIVE binsearch(_, _, _, _, _)
binsearch(a, v, side, lo, hi) ==
    IF lo >= hi
    THEN lo
    ELSE LET mid == lo + ((hi - lo) \div 2)
             below == IF side = "left" THEN a[mid + 1] < v ELSE a[mid + 1] <= v
         IN  IF below
             THEN binsearch(a, v, side, mid + 1, hi)
             ELSE binsearch(a, v, side, lo, mid)

searchsorted(a, v, side) == binsearch(a, v, side, 0, Len(a))

\* np.argmax(a): the Python position of the first maximum of a non-empty array.
argmax(a) ==
    (CHOOSE i \in 1..Len(a) :
        /\ \A j \in 1..Len(a) : a[j] <= a[i]
        /\ \A j \in 1..(i - 1) : a[j] < a[i]) - 1

\* a[idxs] with a list of positions: any position outside the array raises
\* IndexError, otherwise the selected elements in the order of idxs.
FancyIndex(a, idxs) ==
    IF \E k \in 1..Len(idxs) : idxs[k] >= Len(a)
    THEN Raise("IndexError")
    ELSE Return([k \in 1..Len(idxs) |-> a[idxs[k] + 1]])

\* np.bincount(labels, minlength): the number of occurrences of every value
\* 0..max(labels), padded with zeros to at least minlength entries.
RECURSIVE MaxOfSeq(_)
MaxOfSeq(a) == IF a = <<>> THEN -1 ELSE Max(a[1], MaxOfSeq(Tail(a)))

bincount(labels, minlength) ==
    [v \in 1..Max(minlength, MaxOfSeq(labels) + 1) |->
        Cardinality({k \in 1..Len(labels) : labels[k] = v - 1})]

(***************************************************************************)
(* IcentiaDataset.get_complete_beats                                       *)
(***************************************************************************)
\* A variant of start_index_of that keeps the first marker at or after start.
start_index_no_skip(indices, start) == searchsorted(indices, start, "left")

start_index_of(indices, start) == searchsorted(indices, start, "left") + 1

end_index_of(indices, end) == searchsorted(indices, end, "right")

\* A variant of invalid_window that accepts an empty window.
invalid_window_strict(start, end) == start > end

invalid_window(start, end) == start >= end

get_complete_beats(indices, labels, start, end) ==
    IF end = None /\ Len(indices) = 0
    THEN Raise("IndexError")                      \* indices[-1] of an empty array
    ELSE LET end_ == IF end = None THEN indices[Len(indices)] ELSE end[1]
         IN  IF invalid_window(start, end_)
             THEN Raise("ValueError")
             ELSE LET start_index == start_index_of(indices, start)
                      end_index == end_index_of(indices, end_)
                      indices_slice == PySlice(indices, start_index, end_index)
                  IN  IF labels = None
                      THEN Return(indices_slice)
                      ELSE Return(<<indices_slice,
                                    PySlice(labels[1], start_index, end_index)>>)

(***************************************************************************)
(* IcentiaDataset._get_rhythm_label                                        *)
(***************************************************************************)
\* durations[labels == code].sum()
RECURSIVE masked_sum(_, _, _)
masked_sum(durations, labels, code) ==
    IF durations = <<>>
    THEN 0
    ELSE (IF labels[1] = code THEN durations[1] ELSE 0)
            + masked_sum(Tail(durations), Tail(labels), code)

summed_durations_of(durations, labels) ==
    [v \in 1..Cardinality(IcentiaRhythm) |-> masked_sum(durations, labels, v - 1)]

_get_rhythm_label(durations, labels) ==
    LET summed_durations == summed_durations_of(durations, labels)
        hp == FancyIndex(summed_durations, IcentiaRhythm_hi_priority).val
        longest_hp_rhythm == argmax(hp)
        lp == FancyIndex(summed_durations, IcentiaRhythm_lo_priority).val
        longest_lp_rhythm == argmax(lp)
    IN  IF hp[longest_hp_rhythm + 1] > 0
        THEN DictGet(HeartRhythmMap, IcentiaRhythm_hi_priority[longest_hp_rhythm + 1])
        ELSE IF lp[longest_lp_rhythm + 1] > 0
             THEN DictGet(HeartRhythmMap,
                          IcentiaRhythm_lo_priority[longest_lp_rhythm + 1])
             ELSE DictGet(HeartRhythmMap, IcentiaRhythm_noise)

(***************************************************************************)
(* IcentiaDataset._get_beat_label                                          *)
(***************************************************************************)
_get_beat_label(labels) ==
    LET beat_counts == bincount(labels, Cardinality(IcentiaBeat))
        hp == FancyIndex(beat_counts, IcentiaBeat_hi_priority)
    IN  IF hp.kind = "raise"
        THEN hp
        ELSE LET max_hp_idx == argmax(hp.val)
             IN  IF hp.val[max_hp_idx + 1] > 0
                 THEN DictGet(HeartBeatMap, IcentiaBeat_hi_priority[max_hp_idx + 1])
                 ELSE LET lp == FancyIndex(beat_counts, IcentiaBeat_lo_priority).val
                          max_lp_idx == argmax(lp)
                      IN  IF lp[max_lp_idx + 1] > 0
                          THEN DictGet(HeartBeatMap,
                                       IcentiaBeat_lo_priority[max_lp_idx + 1])
                          ELSE DictGet(HeartBeatMap, IcentiaBeat_undefined)

(***************************************************************************)
(* IcentiaDataset._get_heart_rate_label                                    *)
(*                                                                         *)
(* The beat indices are a record [type, data]: type "list" for a Python    *)
(* list (the documented argument type) and "ndarray" for a numpy array     *)
(* (what heart_rate_data_generator passes: a slice of a label table).      *)
(* A float is the exact rational [n, d] with d >= 0: d = 0 and n = 0 is    *)
(* NaN, d = 0 and n > 0 is +inf. Every comparison with NaN is false.       *)
(***************************************************************************)
NaN == [n |-> 0, d |-> 0]
RatLt(x, k) == x.d > 0 /\ x.n < k * x.d
RatLe(x, k) == x.d > 0 /\ x.n <= k * x.d
RatGt(x, k) == (x.d > 0 /\ x.n > k * x.d) \/ (x.d = 0 /\ x.n > 0)

\* `not x`: a list is false when empty; an array is false when empty, has
\* the truth value of its only element when it has one, and has no truth
\* value (ValueError) when it has more than one.
py_not(x) ==
    IF x.type = "list"
    THEN Return(Len(x.data) = 0)
    ELSE IF Len(x.data) = 0 THEN Return(TRUE)
         ELSE IF Len(x.data) = 1 THEN Return(x.data[1] = 0)
              ELSE Raise("ValueError")

\* np.diff(a): the differences of consecutive elements.
diff(a) == [k \in 1..(Len(a) - 1) |-> a[k + 1] - a[k]]

\* (rr_intervals / fs).mean(): the mean of no interval is NaN.
mean_interval(rr_intervals, fs) ==
    [n |-> SumSeq(rr_intervals),
     d |-> (IF fs = None THEN 1 ELSE fs[1]) * Len(rr_intervals)]

\* 60 / mean, for a mean that is not negative.
bpm_of(mean) == [n |-> 60 * mean.d, d |-> mean.n]

_get_heart_rate_label(qrs_indices, fs) ==
    LET empty == py_not(qrs_indices)
    IN  IF empty.kind = "raise"
        THEN empty
        ELSE IF empty.val
             THEN Return(HeartRate_noise)
             ELSE LET rr_intervals == diff(qrs_indices.data)
                      bpm == bpm_of(mean_interval(rr_intervals, fs))
                  IN  IF RatLt(bpm, 60)
                      THEN Return(HeartRate_bradycardia)
                      ELSE IF RatLe(bpm, 100)
                           THEN Return(HeartRate_normal)
                           ELSE Return(HeartRate_tachycardia)

(***************************************************************************)
(* The label resolver applied to bounded inputs.                           *)
(***************************************************************************)
SortedIndices == {a \in SeqsUpTo(0..MaxIdx, MaxBeats) : IsSorted(a)}

\* Label arrays as long as the index array, or no label array.
LabelArrays(n) == {None} \cup {Some(l) : l \in [1..n -> {IcentiaBeat_normal, IcentiaBeat_pvc}]}

Windows == 0..MaxIdx

FsValues == {None, Some(1), Some(5), Some(250)}

Init ==
    /\ op = "none"
    /\ args = <<>>
    /\ ret = <<>>
    /\ task = "none"
    /\ cfg = <<>>
    /\ gpc = "new"
    /\ pulled = 0
    /\ segments = <<>>
    /\ queue = <<>>
    /\ reads = <<>>
    /\ yielded = <<>>
    /\ store = {}
    /\ pgen = <<>>
    /\ ppc = "none"
    /\ order = <<>>
    /\ pos = 0
    /\ handles = {}
    /\ opened = 0
    /\ taken = <<>>
    /\ given = <<>>
    /\ err = None
    /\ generator = <<>>
    /\ buffer_size = 0
    /\ consumed = 0
    /\ buffer = <<>>
    /\ bpc = "none"
    /\ buffers = <<>>

Call_get_complete_beats ==
    /\ op = "none"
    /\ \E indices \in SortedIndices, start \in Windows,
          end \in {None} \cup {Some(e) : e \in Windows} :
        \E labels \in LabelArrays(Len(indices)) :
            /\ op' = "get_complete_beats"
            /\ args' = [indices |-> indices, labels |-> labels,
                        start |-> start, end |-> end]
            /\ ret' = get_complete_beats(indices, labels, start, end)
            /\ UNCHANGED <<generator_vars, patient_vars, buffer_vars>>

Call_get_rhythm_label ==
    /\ op = "none"
    /\ \E n \in 0..MaxRhythms :
        \E durations \in [1..n -> 0..MaxDur], labels \in [1..n -> IcentiaRhythm] :
            /\ op' = "_get_rhythm_label"
            /\ args' = [durations |-> durations, labels |-> labels]
            /\ ret' = _get_rhythm_label(durations, labels)
            /\ UNCHANGED <<generator_vars, patient_vars, buffer_vars>>

Call_get_beat_label ==
    /\ op = "none"
    /\ \E labels \in SeqsUpTo(IcentiaBeat, MaxLabels) :
        /\ op' = "_get_beat_label"
        /\ args' = [labels |-> labels]
        /\ ret' = _get_beat_label(labels)
        /\ UNCHANGED <<generator_vars, patient_vars, buffer_vars>>

Call_get_heart_rate_label ==
    /\ op = "none"
    /\ \E data \in SortedIndices, type \in {"list", "ndarray"}, fs \in FsValues :
        /\ op' = "_get_heart_rate_label"
        /\ args' = [qrs_indices |-> [type |-> type, data |-> data], fs |-> fs]
        /\ ret' = _get_heart_rate_label([type |-> type, data |-> data], fs)
        /\ UNCHANGED <<generator_vars, patient_vars, buffer_vars>>


(***************************************************************************)
(* Properties of get_complete_beats.                                       *)
(***************************************************************************)
\* The elements of a at the positions K, in their order in a.
RECURSIVE PickAt(_, _, _)
PickAt(a, K, k) ==
    IF k > Len(a)
    THEN <<>>
    ELSE (IF k \in K THEN <<a[k]>> ELSE <<>>) \o PickAt(a, K, k + 1)

GcbCalled == op = "get_complete_beats"

\* The window's end is known: it was given, or there is a last beat index.
GcbHasEnd == args.end # None \/ Len(args.indices) > 0

GcbEnd ==
    IF args.end = None THEN args.indices[Len(args.indices)] ELSE args.end[1]

GcbIndices == IF args.labels = None THEN ret.val ELSE ret.val[1]

\* The call returned exactly the entries (indices, and labels when given) at
\* the positions K.
GcbReturnsPositions(K) ==
    /\ ret.kind = "return"
    /\ GcbIndices = PickAt(args.indices, K, 1)
    /\ args.labels # None => ret.val[2] = PickAt(args.labels[1], K, 1)

StrictlyInside ==
    {k \in 1..Len(args.indices) :
        args.start < args.indices[k] /\ args.indices[k] < GcbEnd}

\* A beat is complete when the marker before it is at or after start and its
\* own marker is at or before end.
CompleteBeats ==
    {k \in 2..Len(args.indices) :
        args.indices[k - 1] >= args.start /\ args.indices[k] <= GcbEnd}

\* C1 (as stated): with start < end and sorted indices, get_complete_beats
\* returns exactly the entries whose index i satisfies start < i < end, in
\* their original order. (Stated here for strictly increasing indices only,
\* the beat tables of the data model.)
C1_StrictlyInsideReturned ==
    (GcbCalled /\ args.end # None /\ args.start < GcbEnd
        /\ StrictlyIncreasing(args.indices))
        => GcbReturnsPositions(StrictlyInside)

\* C1 (amended): with start < end and sorted indices, get_complete_beats
\* returns, in their original order, exactly the entries that have a
\* predecessor entry with index >= start and whose own index is <= end: of
\* the entries with start <= i <= end all but the first one, so a beat at end
\* is returned and the first beat at or after start is dropped.
C1_CompleteBeatsReturned ==
    (GcbCalled /\ args.end # None /\ args.start < GcbEnd)
        => GcbReturnsPositions(CompleteBeats)

\* C1 witness: a call that returns a beat located at end and drops a beat
\* strictly inside the window.
C1_Witness ==
    /\ GcbCalled
    /\ args.end # None
    /\ ret.kind = "return"
    /\ args.labels # None
    /\ \E k \in CompleteBeats : args.indices[k] = GcbEnd
    /\ \E k \in StrictlyInside : k \notin CompleteBeats

\* C2: get_complete_beats called with start >= end, where end is the given
\* end or, when omitted, the last beat index, fails with ValueError.
C2_InvalidWindowRaises ==
    (GcbCalled /\ GcbHasEnd /\ args.start >= GcbEnd)
        => ret = Raise("ValueError")

\* C2 witness: end omitted, start at the last beat index, ValueError raised.
C2_Witness ==
    /\ GcbCalled
    /\ args.end = None
    /\ Len(args.indices) > 0
    /\ args.start = args.indices[Len(args.indices)]
    /\ ret = Raise("ValueError")

(***************************************************************************)
(* Properties of _get_rhythm_label.                                        *)
(***************************************************************************)
RhythmCalled == op = "_get_rhythm_label"

\* The summed duration of the intervals labelled code.
TotalDuration(code) ==
    SumSeq([k \in 1..Len(args.durations) |->
                IF args.labels[k] = code THEN args.durations[k] ELSE 0])

\* C3: whenever the summed duration of afib or aflut is greater than 0,
\* _get_rhythm_label returns the afib label, whatever the other durations.
C3_HighPriorityWins ==
    (RhythmCalled
        /\ (TotalDuration(IcentiaRhythm_afib) > 0
                \/ TotalDuration(IcentiaRhythm_aflut) > 0))
        => ret = Return(HeartRhythm_afib)

\* C3 witness: flutter is present, shorter than normal, and the afib label
\* was returned.
C3_Witness ==
    /\ RhythmCalled
    /\ TotalDuration(IcentiaRhythm_aflut) > 0
    /\ TotalDuration(IcentiaRhythm_afib) = 0
    /\ TotalDuration(IcentiaRhythm_normal) > TotalDuration(IcentiaRhythm_aflut)
    /\ ret = Return(HeartRhythm_afib)

LowPriorityCodes ==
    {IcentiaRhythm_noise, IcentiaRhythm_normal, IcentiaRhythm_end,
     IcentiaRhythm_unknown}

\* C4: when every high-priority summed duration is 0, _get_rhythm_label
\* returns a label of the rhythm alphabet: noise when all sums are 0, and
\* otherwise the mapped label of a low-priority code with the largest sum.
C4_LowPriorityFallback ==
    (RhythmCalled
        /\ TotalDuration(IcentiaRhythm_afib) = 0
        /\ TotalDuration(IcentiaRhythm_aflut) = 0)
        => /\ ret.kind = "return"
           /\ ret.val \in HeartRhythm
           /\ (\A c \in LowPriorityCodes : TotalDuration(c) = 0)
                => ret.val = HeartRhythm_noise
           /\ (\E c \in LowPriorityCodes : TotalDuration(c) > 0)
                => \E c \in LowPriorityCodes \cap DOMAIN HeartRhythmMap :
                    /\ \A o \in LowPriorityCodes : TotalDuration(o) <= TotalDuration(c)
                    /\ ret.val = HeartRhythmMap[c]

(***************************************************************************)
(* Properties of _get_beat_label.                                          *)
(***************************************************************************)
BeatCalled == op = "_get_beat_label"

Count(code) == Cardinality({k \in 1..Len(args.labels) : args.labels[k] = code})

\* C5: whenever a pac or pvc code occurs in labels, _get_beat_label returns
\* the mapped label of the most frequent high-priority code, whether or not
\* the other high-priority code occurs.
C5_HighPriorityBeatWins ==
    (BeatCalled /\ (Count(IcentiaBeat_pac) > 0 \/ Count(IcentiaBeat_pvc) > 0))
        => /\ ret.kind = "return"
           /\ Count(IcentiaBeat_pac) > Count(IcentiaBeat_pvc)
                => ret.val = HeartBeat_pac
           /\ Count(IcentiaBeat_pvc) > Count(IcentiaBeat_pac)
                => ret.val = HeartBeat_pvc
           /\ ret.val \in {HeartBeat_pac, HeartBeat_pvc}

\* C6: when labels holds no pac and no pvc code, _get_beat_label returns the
\* mapped label of whichever of normal / undefined occurs more often, and
\* the noise label when labels is empty.
C6_LowPriorityBeatFallback ==
    (BeatCalled /\ Count(IcentiaBeat_pac) = 0 /\ Count(IcentiaBeat_pvc) = 0)
        => /\ ret.kind = "return"
           /\ Count(IcentiaBeat_normal) > Count(IcentiaBeat_undefined)
                => ret.val = HeartBeat_normal
           /\ Count(IcentiaBeat_undefined) > Count(IcentiaBeat_normal)
                => ret.val = HeartBeat_noise
           /\ args.labels = <<>> => ret.val = HeartBeat_noise

(***************************************************************************)
(* Properties of _get_heart_rate_label.                                    *)
(***************************************************************************)
RateCalled == op = "_get_heart_rate_label"

QrsData == args.qrs_indices.data

\* C7: _get_heart_rate_label returns the noise label whenever it is given
\* fewer than 2 beat indices (none, or exactly one).
C7_FewBeatsAreNoise ==
    (RateCalled /\ Len(QrsData) < 2) => ret = Return(HeartRate_noise)

\* C8: with n >= 2 increasing beat indices and sampling rate fs,
\* _get_heart_rate_label returns bradycardia iff bpm < 60, normal iff
\* 60 <= bpm <= 100 and tachycardia iff bpm > 100, where
\* bpm = 60*fs*(n-1)/(last-first); it returns one of the three for every
\* such input.
C8_RateBuckets ==
    (RateCalled /\ args.fs # None /\ Len(QrsData) >= 2 /\ StrictlyIncreasing(QrsData))
        => LET beats == 60 * args.fs[1] * (Len(QrsData) - 1)
               span == QrsData[Len(QrsData)] - QrsData[1]
           IN  /\ ret.kind = "return"
               /\ ret.val = HeartRate_bradycardia <=> beats < 60 * span
               /\ ret.val = HeartRate_normal
                    <=> (60 * span <= beats /\ beats <= 100 * span)
               /\ ret.val = HeartRate_tachycardia <=> beats > 100 * span

(***************************************************************************)
(* The task sample generators.                                             *)
(*                                                                         *)
(* A segment is a record [size, rlabels, blabels]: size is the length of   *)
(* its signal (data.shape[0]) and the label tables are sequences of rows   *)
(* <<sample_index, code>>. A patient is the sequence of its segments, in   *)
(* the order of segments.keys(); seg_idx is a Python position in it.       *)
(* samples_per_patient is [type |-> "int", val |-> <<n>>] for the integer  *)
(* n or [type |-> "list", val |-> <<...>>] for a list.                     *)
(***************************************************************************)
Range(a) == {a[k] : k \in 1..Len(a)}

\* random.shuffle(a): every ordering of a.
Shuffles(a) ==
    {[k \in 1..Len(a) |-> a[p[k]]] :
        p \in {q \in [1..Len(a) -> 1..Len(a)] : Range(q) = 1..Len(a)}}

\* a[first::2]
every_other(a, first) ==
    [k \in 1..((Len(a) - first + 1) \div 2) |-> a[first + 2 * (k - 1) + 1]]

\* a[:, c]
column(a, c) == [k \in 1..Len(a) |-> a[k][c + 1]]

\* Element k of an array broadcast against a longer one.
broadcast(a, k) == IF Len(a) = 1 THEN a[1] ELSE a[k]

\* samples_per_tgt: the list itself, or, for an integer, the list that
\* `num_per_tgt * [len(tgt_labels)]` builds.
samples_per_tgt_of(samples_per_patient, n_targets) ==
    IF samples_per_patient.type = "list"
    THEN samples_per_patient.val
    ELSE LET num_per_tgt == Max(1, samples_per_patient.val[1] \div n_targets)
         IN  [k \in 1..num_per_tgt |-> n_targets]

(***************************************************************************)
(* IcentiaDataset.rhythm_data_generator                                    *)
(***************************************************************************)
tgt_labels == <<IcentiaRhythm_normal, IcentiaRhythm_afib, IcentiaRhythm_aflut>>

not_noise(row) == row[2] # IcentiaRhythm_noise

strip_noise(rlabels) == SelectSeq(rlabels, not_noise)

RECURSIVE seg_vals_of(_, _, _, _, _)
seg_vals_of(seg_idx, xs, xe, idxs, k) ==
    IF k > Len(xs)
    THEN <<>>
    ELSE (IF k \in idxs THEN <<(<<seg_idx, xs[k], xe[k]>>)>> ELSE <<>>)
            \o seg_vals_of(seg_idx, xs, xe, idxs, k + 1)

long_enough(rhy_start, rhy_end, frame_size) == rhy_end - rhy_start >= frame_size

\* The rows <<seg_idx, start, end>> of one segment for one target class:
\* noise rows stripped, the rest paired as starts (even positions) and ends
\* (odd positions). Arrays of different lengths broadcast only when one of
\* them has a single element, and a selected position must exist in xe.
segment_intervals(seg_idx, rlabels, frame_size, tgt_class) ==
    LET kept == strip_noise(rlabels)
        xs == column(every_other(kept, 0), 0)
        xe == column(every_other(kept, 1), 0)
        xl == column(every_other(kept, 0), 1)
        n == IF Len(xs) = Len(xe) THEN Len(xs)
             ELSE IF Len(xs) = 1 THEN Len(xe) ELSE Len(xs)
        idxs == {k \in 1..n :
                    /\ long_enough(broadcast(xs, k), broadcast(xe, k), frame_size)
                    /\ broadcast(xl, k) = tgt_class}
    IN  IF Len(xs) # Len(xe) /\ Len(xs) # 1 /\ Len(xe) # 1
        THEN Raise("ValueError")
        ELSE IF \E k \in idxs : k > Len(xe)
             THEN Raise("IndexError")
             ELSE Return(seg_vals_of(seg_idx, xs, xe, idxs, 1))

\* pt_tgt_seg_map[tgt_idx]: the rows of all segments from position s on.
RECURSIVE tgt_segments_of(_, _, _, _)
tgt_segments_of(segs, frame_size, tgt_class, s) ==
    IF s > Len(segs)
    THEN Return(<<>>)
    ELSE LET here == IF Len(segs[s].rlabels) = 0
                     THEN Return(<<>>)
                     ELSE segment_intervals(s - 1, segs[s].rlabels, frame_size,
                                            tgt_class)
             rest == tgt_segments_of(segs, frame_size, tgt_class, s + 1)
         IN  IF here.kind = "raise" THEN here
             ELSE IF rest.kind = "raise" THEN rest
                  ELSE Return(here.val \o rest.val)

\* A variant of frame_starts with the upper bound included.
frame_starts_past_end(rhy_start, rhy_end, frame_size) ==
    rhy_start..(rhy_end - frame_size + 1)

\* np.random.randint(rhy_start, rhy_end - frame_size + 1): the upper bound
\* is exclusive.
frame_starts(rhy_start, rhy_end, frame_size) == rhy_start..(rhy_end - frame_size)

\* The selections one class can draw: k times an interval (random.choices
\* picks among the rows, all of positive weight) and a frame start in it.
class_draws(tgt_segments, k, frame_size, label) ==
    [1..k ->
        UNION {{<<row[1], frame_start, frame_start + frame_size, label>> :
                    frame_start \in frame_starts(row[2], row[3], frame_size)} :
               row \in Range(tgt_segments)}]

\* The lists seg_samples can be after the shuffle, or the exception raised
\* while they are drawn.
rhythm_seg_samples(segs, frame_size, samples_per_tgt) ==
    LET found == [t \in 1..Len(tgt_labels) |->
                    tgt_segments_of(segs, frame_size, tgt_labels[t], 1)]
        draws(t) ==
            IF found[t].val = <<>>
            THEN {<<>>}
            ELSE class_draws(found[t].val, samples_per_tgt[t], frame_size,
                             HeartRhythmMap[tgt_labels[t]])
    IN  IF \E t \in 1..Len(tgt_labels) : found[t].kind = "raise"
        THEN found[CHOOSE t \in 1..Len(tgt_labels) : found[t].kind = "raise"]
        ELSE IF \E t \in 1..Len(tgt_labels) :
                    found[t].val # <<>> /\ t > Len(samples_per_tgt)
             THEN Raise("IndexError")
             ELSE Return(UNION {Shuffles(d1 \o d2 \o d3) :
                                    d1 \in draws(1), d2 \in draws(2), d3 \in draws(3)})

(***************************************************************************)
(* IcentiaDataset.beat_data_generator                                      *)
(***************************************************************************)
sampling_rate == 250

blabel_padding == 20

rr_win_len == 15 * sampling_rate

rr_min_len == (6 * sampling_rate) \div 10

rr_max_len == 2 * sampling_rate

tgt_beat_labels == <<IcentiaBeat_normal, IcentiaBeat_pac, IcentiaBeat_pvc>>

\* num_nlabels / num_blabels < nlabel_threshold, with the threshold 0.25
too_few_normal(blabels) ==
    4 * Cardinality({k \in 1..Len(blabels) : blabels[k][2] = IcentiaBeat_normal})
        < Len(blabels)

\* A variant of neighbours_ok that looks at the earlier neighbour only.
neighbours_ok_left_only(blabels, i, beat) ==
    IF beat = IcentiaBeat_normal
    THEN blabels[i][2] = IcentiaBeat_normal
    ELSE IcentiaBeat_undefined \notin {blabels[i][2], blabels[i + 2][2]}

\* May the marker at Python position i be taken as a beat of class beat?
neighbours_ok(blabels, i, beat) ==
    IF beat = IcentiaBeat_normal
    THEN /\ blabels[i][2] = IcentiaBeat_normal
         /\ blabels[i + 2][2] = IcentiaBeat_normal
    ELSE IcentiaBeat_undefined \notin {blabels[i][2], blabels[i + 2][2]}

\* The rows <<seg_idx, sample_index>> one segment adds to pt_beat_map for a
\* class: none for an empty table or one with too few normal beats, else
\* the markers of the class outside the padding (the Python positions of
\* blabels[blabel_padding:-blabel_padding]) whose neighbours allow it. The
\* rows are kept as a set: their order plays no part in the random choice.
segment_beats(seg_idx, blabels, beat) ==
    IF Len(blabels) <= 0 \/ too_few_normal(blabels)
    THEN {}
    ELSE {<<seg_idx, blabels[i + 1][1]>> :
            i \in {j \in blabel_padding..(Len(blabels) - blabel_padding - 1) :
                        blabels[j + 1][2] = beat /\ neighbours_ok(blabels, j, beat)}}

tgt_beats_of(segs, beat) ==
    UNION {segment_beats(s - 1, segs[s].blabels, beat) : s \in 1..Len(segs)}

\* All orderings of the elements of the set S.
Orderings(S) ==
    {q \in [1..Cardinality(S) -> S] : \A i, j \in 1..Cardinality(S) : q[i] = q[j] => i = j}

\* A variant of random_choice that refuses an empty population even when
\* no sample is asked for.
random_choice_needs_population(population, size) ==
    IF population = {} \/ size > Cardinality(population)
    THEN Raise("ValueError")
    ELSE Return({c \in SUBSET population : Cardinality(c) = size})

\* np.random.choice(np.arange(len(tgt_beats)), size=tgt_count, replace=False)
\* on the rows themselves: ValueError for a sample from an empty population
\* or one larger than the population, else the samples it can draw.
random_choice(population, size) ==
    IF (population = {} /\ size # 0) \/ size > Cardinality(population)
    THEN Raise("ValueError")
    ELSE Return({c \in SUBSET population : Cardinality(c) = size})

\* The lists pt_segs_beat_idxs can be after the shuffle: for every class
\* min(samples_per_tgt, number of candidates) candidates drawn without
\* replacement, as rows <<seg_idx, sample_index, label>>; or the exception
\* raised while they are drawn.
beat_selections(segs, samples_per_tgt) ==
    LET found == [t \in 1..Len(tgt_beat_labels) |->
                    tgt_beats_of(segs, tgt_beat_labels[t])]
        tgt_idxs == [t \in 1..Len(tgt_beat_labels) |->
                        random_choice(found[t], Min(samples_per_tgt[t],
                                                    Cardinality(found[t])))]
        picks(t) ==
            {{<<row[1], row[2], HeartBeatMap[tgt_beat_labels[t]]>> : row \in chosen} :
                chosen \in tgt_idxs[t].val}
    IN  IF Len(samples_per_tgt) < Len(tgt_beat_labels)
        THEN Raise("IndexError")
        ELSE IF \E t \in 1..Len(tgt_beat_labels) : tgt_idxs[t].kind = "raise"
             THEN Raise("ValueError")
             ELSE Return(UNION {Orderings(p1 \cup p2 \cup p3) :
                                    p1 \in picks(1), p2 \in picks(2), p3 \in picks(3)})

\* int(random.uniform(0.4, 0.6) * frame_size)
beat_offsets(frame_size) == ((2 * frame_size) \div 5)..((3 * frame_size) \div 5)

\* A variant of outside_segment that tests the later window only.
outside_segment_upper_only(frame_start, frame_end, avg_rr, size) ==
    frame_end + avg_rr >= size

\* The earlier window would start before the signal, or the later one would
\* reach its end.
outside_segment(frame_start, frame_end, avg_rr, size) ==
    frame_start - avg_rr < 0 \/ frame_end + avg_rr >= size

\* One selected beat, with the drawn offset of the frame before the marker:
\* [skip |-> TRUE] when the candidate is passed over, else the three
\* windows read (shifted earlier, centered, shifted later).
beat_frame(seg, seg_idx, beat_idx, offset, frame_size) ==
    LET frame_start == Max(0, beat_idx - offset)
        frame_end == frame_start + frame_size
        positions == column(seg.blabels, 0)
        rr_xs == searchsorted(positions, Max(0, frame_start - rr_win_len), "left")
        rr_xe == searchsorted(positions, frame_end + rr_win_len, "left")
        blabel_diffs == diff(column(PySlice(seg.blabels, rr_xs, rr_xe + 1), 0))
        idxs == {k \in 1..Len(blabel_diffs) :
                    blabel_diffs[k] > rr_min_len /\ blabel_diffs[k] < rr_max_len}
        avg_rr == SumSeq(blabel_diffs) \div Len(blabel_diffs)
    IN  IF rr_xe <= rr_xs THEN [skip |-> TRUE, reads |-> <<>>]
        ELSE IF idxs = {} THEN [skip |-> TRUE, reads |-> <<>>]
        ELSE IF outside_segment(frame_start, frame_end, avg_rr, seg.size)
             THEN [skip |-> TRUE, reads |-> <<>>]
             ELSE [skip |-> FALSE,
                   reads |-> <<(<<seg_idx, frame_start - avg_rr, frame_end - avg_rr>>),
                               (<<seg_idx, frame_start, frame_end>>),
                               (<<seg_idx, frame_start + avg_rr, frame_end + avg_rr>>)>>]

(***************************************************************************)
(* IcentiaDataset.heart_rate_data_generator                                *)
(***************************************************************************)
\* np.random.randint(segment_size - max_frame_size) + max_frame_size // 2
frame_center_of(r, max_frame_size) == r + max_frame_size \div 2

\* One sample from the segment seg: the exception of np.random.randint when
\* the segment leaves no room, else, for every value r it can draw, the
\* window read and the outcome of the label computation.
rate_samples(seg, seg_idx, frame_size) ==
    LET label_frame_size == frame_size
        max_frame_size == Max(frame_size, label_frame_size)
        sample(r) ==
            LET frame_center == frame_center_of(r, max_frame_size)
                signal_frame_start == frame_center - frame_size \div 2
                signal_frame_end == frame_center + frame_size \div 2
                label_frame_start == frame_center - label_frame_size \div 2
                label_frame_end == frame_center + label_frame_size \div 2
                frame_beat_indices ==
                    get_complete_beats(column(seg.blabels, 0), None,
                                       label_frame_start, Some(label_frame_end))
            IN  [reads |-> <<(<<seg_idx, signal_frame_start, signal_frame_end>>)>>,
                 y |-> IF frame_beat_indices.kind = "raise"
                       THEN frame_beat_indices
                       ELSE _get_heart_rate_label(
                                [type |-> "ndarray", data |-> frame_beat_indices.val],
                                Some(sampling_rate))]
    IN  IF seg.size - max_frame_size <= 0
        THEN {[reads |-> <<>>, y |-> Raise("ValueError")]}
        ELSE {sample(r) : r \in 0..(seg.size - max_frame_size - 1)}

(***************************************************************************)
(* The patients of the model.                                              *)
(***************************************************************************)
RhythmCodes ==
    {IcentiaRhythm_noise, IcentiaRhythm_normal, IcentiaRhythm_afib,
     IcentiaRhythm_aflut}

\* The lists of n rhythm intervals <<start, end, code>> from sample lo on,
\* in increasing order, none overlapping the next.
RECURSIVE IntervalListsFrom(_, _)
IntervalListsFrom(n, lo) ==
    IF n = 0
    THEN {<<>>}
    ELSE UNION {{<<(<<iv[1], iv[2], code>>)>> \o rest :
                    code \in RhythmCodes,
                    rest \in IntervalListsFrom(n - 1, iv[2])} :
                iv \in {x \in (lo..MaxMark) \X (lo..MaxMark) : x[1] < x[2]}}

IntervalLists(n) == IntervalListsFrom(n, 0)

\* The label table of a list of intervals: a start row and an end row per
\* interval, both with the interval's code.
rlabels_of(ivs) ==
    [r \in 1..(2 * Len(ivs)) |->
        IF r % 2 = 1
        THEN <<ivs[(r + 1) \div 2][1], ivs[(r + 1) \div 2][3]>>
        ELSE <<ivs[r \div 2][2], ivs[r \div 2][3]>>]

RhythmSegment(ivs) ==
    [size |-> MaxMark + 1, rlabels |-> rlabels_of(ivs), blabels |-> <<>>]

\* The interval lists of a patient's segments after the first n of them:
\* none, or one interval over the whole signal.
RECURSIVE WholeIntervalSeqs(_)
WholeIntervalSeqs(n) ==
    IF n = 0
    THEN {<<>>}
    ELSE {<<first>> \o rest :
            first \in {<<>>} \cup {<<(<<0, MaxMark, code>>)>> : code \in RhythmCodes},
            rest \in WholeIntervalSeqs(n - 1)}

\* Patients of one segment with up to MaxIntervals intervals, and patients
\* of more segments with at most one interval in each.
RhythmPatients ==
    {[s \in 1..Len(lists) |-> RhythmSegment(lists[s])] :
        lists \in {<<ivs>> : ivs \in UNION {IntervalLists(m) : m \in 0..MaxIntervals}}
                    \cup UNION {{<<first>> \o rest :
                                    first \in IntervalLists(0) \cup IntervalLists(1),
                                    rest \in WholeIntervalSeqs(n - 1)} :
                                n \in 2..MaxSegments}}

RhythmConfigs ==
    {[frame_size |-> f, samples_per_patient |-> spp] :
        f \in {2},
        spp \in {[type |-> "list", val |-> <<1, 1, 1>>],
                 [type |-> "list", val |-> <<2, 1, 0>>],
                 [type |-> "int", val |-> <<1>>]}}

\* A beat label table of 2 * blabel_padding + m markers. The gaps between
\* consecutive markers are gaps[1] before the last padding marker, gaps[2]
\* from there to the first marker of the closing padding and gaps[3] after
\* it; the m markers outside the padding and their two neighbours carry the
\* codes free, every other marker the code pad.
beat_table(m, gaps, pad, free) ==
    [k \in 1..(2 * blabel_padding + m) |->
        <<IF k <= blabel_padding
          THEN (k - 1) * gaps[1]
          ELSE IF k <= blabel_padding + m + 1
               THEN (blabel_padding - 1) * gaps[1] + (k - blabel_padding) * gaps[2]
               ELSE (blabel_padding - 1) * gaps[1] + (m + 1) * gaps[2]
                        + (k - blabel_padding - m - 1) * gaps[3],
          IF k >= blabel_padding /\ k <= blabel_padding + m + 1
          THEN free[k - blabel_padding + 1]
          ELSE pad>>]

\* The segment of a beat table whose signal ends tail samples after the
\* last marker.
BeatSegment(table, tail) ==
    [size |-> table[Len(table)][1] + tail, rlabels |-> <<>>, blabels |-> table]

\* The gaps of a table and the tail of its segment.
BeatLayouts ==
    {<<(<<200, 200, 200>>), 500>>, <<(<<1, 1, 200>>), 500>>,
     <<(<<200, 1, 1>>), 1>>, <<(<<1, 1, 1>>), 500>>}

BeatSegments ==
    {BeatSegment(beat_table(x[1], x[2][1], x[3], x[4]), x[2][2]) :
        x \in UNION {{<<m, layout, pad, free>> :
                        layout \in BeatLayouts,
                        pad \in {IcentiaBeat_normal},
                        free \in [1..(m + 2) -> IcentiaBeat]} : m \in 1..MaxFree}}
        \cup {BeatSegment(beat_table(1, <<200, 200, 200>>, IcentiaBeat_undefined,
                                     <<IcentiaBeat_normal, code, IcentiaBeat_normal>>),
                          500) : code \in IcentiaBeat}

\* Segments that give no candidate: no beat marker at all, or no more
\* markers than the two paddings.
SparseBeatSegments ==
    {[size |-> 500, rlabels |-> <<>>, blabels |-> <<>>],
     BeatSegment(beat_table(0, <<200, 200, 200>>, IcentiaBeat_normal,
                            <<IcentiaBeat_normal, IcentiaBeat_normal>>), 500)}

\* Segments with evenly spaced markers, all normal but the one outside the
\* padding.
PlainBeatSegments ==
    {BeatSegment(beat_table(1, <<200, 200, 200>>, IcentiaBeat_normal,
                            <<IcentiaBeat_normal, code, IcentiaBeat_normal>>), 500) :
        code \in IcentiaBeat}

\* Segments whose markers are evenly spaced up to the one outside the
\* padding and one sample apart in the closing padding.
MixedBeatSegments ==
    {BeatSegment(beat_table(1, <<200, 200, 1>>, IcentiaBeat_normal,
                            <<IcentiaBeat_normal, code, IcentiaBeat_normal>>), 500) :
        code \in {IcentiaBeat_normal, IcentiaBeat_pvc}}

BeatPatients ==
    {<<seg>> : seg \in BeatSegments \cup SparseBeatSegments \cup MixedBeatSegments}
        \cup {<<first, second>> :
                first \in SparseBeatSegments \cup PlainBeatSegments,
                second \in PlainBeatSegments}

BeatConfigs ==
    {[frame_size |-> f, samples_per_patient |-> spp] :
        f \in {10},
        spp \in {[type |-> "list", val |-> <<1, 1, 1>>],
                 [type |-> "list", val |-> <<2, 0, 1>>],
                 [type |-> "int", val |-> <<1>>]}}

\* Segments of the heart-rate task: a signal of 4..MaxSize samples with at
\* most MaxBeats beat markers at increasing sample indices.
RateSegments ==
    UNION {{[size |-> n, rlabels |-> <<>>,
             blabels |-> [k \in 1..Len(at) |-> <<at[k], IcentiaBeat_normal>>]] :
                at \in {a \in SeqsUpTo(0..(n - 1), MaxBeats) : StrictlyIncreasing(a)}} :
           n \in 4..MaxSize}

RatePatients ==
    {<<seg>> : seg \in RateSegments}
        \cup {<<first, second>> :
                first \in {seg \in RateSegments : Len(seg.blabels) = MaxBeats},
                second \in {seg \in RateSegments : Len(seg.blabels) = 0}}

RateConfigs ==
    {[frame_size |-> f, samples_per_patient |-> [type |-> "int", val |-> <<n>>]] :
        f \in {4, 5}, n \in {1, 2}}

Configs(t) ==
    IF t = "arrhythmia" THEN RhythmConfigs
    ELSE IF t = "beat" THEN BeatConfigs ELSE RateConfigs

(***************************************************************************)
(* The generators' steps.                                                  *)
(***************************************************************************)
\* task_data_generator: the generator of the dataset's task is created.
task_data_generator ==
    /\ gpc = "new"
    /\ \E t \in {"arrhythmia", "beat", "hrv"} :
        \E c \in Configs(t) :
            /\ task' = t
            /\ cfg' = c
    /\ gpc' = "next_patient"
    /\ UNCHANGED <<pulled, segments, queue, reads, yielded, resolver_vars, patient_vars, buffer_vars>>

\* The rhythm generator takes the next patient and draws its selections.
RhythmNextPatient ==
    /\ gpc = "next_patient" /\ task = "arrhythmia"
    /\ pulled < MaxPatients
    /\ \E patient \in RhythmPatients :
        LET drawn == rhythm_seg_samples(
                        patient, cfg.frame_size,
                        samples_per_tgt_of(cfg.samples_per_patient, Len(tgt_labels)))
        IN  /\ segments' = patient
            /\ IF drawn.kind = "raise"
               THEN gpc' = "raised" /\ queue' = <<>>
               ELSE gpc' = "in_patient" /\ queue' \in drawn.val
    /\ pulled' = pulled + 1
    /\ reads' = <<>>
    /\ yielded' = <<>>
    /\ UNCHANGED <<task, cfg, resolver_vars, patient_vars, buffer_vars>>

\* The rhythm generator reads the window of its next selection and yields it.
RhythmYield ==
    /\ gpc = "in_patient" /\ task = "arrhythmia"
    /\ queue # <<>>
    /\ LET seg_idx == queue[1][1]
           frame_start == queue[1][2]
           frame_end == queue[1][3]
           label == queue[1][4]
       IN  /\ reads' = <<(<<seg_idx, frame_start, frame_end>>)>>
           /\ yielded' = Append(yielded, [reads |-> reads', label |-> label])
    /\ queue' = Tail(queue)
    /\ UNCHANGED <<task, cfg, gpc, pulled, segments, resolver_vars, patient_vars, buffer_vars>>

\* The beat generator takes the next patient and draws its selections.
BeatNextPatient ==
    /\ gpc = "next_patient" /\ task = "beat"
    /\ pulled < MaxPatients
    /\ \E patient \in BeatPatients :
        LET drawn == beat_selections(
                        patient,
                        samples_per_tgt_of(cfg.samples_per_patient, Len(tgt_beat_labels)))
        IN  /\ segments' = patient
            /\ IF drawn.kind = "raise"
               THEN gpc' = "raised" /\ queue' = <<>>
               ELSE gpc' = "in_patient" /\ queue' \in drawn.val
    /\ pulled' = pulled + 1
    /\ reads' = <<>>
    /\ yielded' = <<>>
    /\ UNCHANGED <<task, cfg, resolver_vars, patient_vars, buffer_vars>>

\* The beat generator reads the three windows of its next selection and
\* yields them.
BeatYield ==
    /\ gpc = "in_patient" /\ task = "beat"
    /\ queue # <<>>
    /\ \E offset \in beat_offsets(cfg.frame_size) :
        LET frame == beat_frame(segments[queue[1][1] + 1], queue[1][1], queue[1][2],
                                offset, cfg.frame_size)
        IN  /\ ~frame.skip
            /\ reads' = frame.reads
            /\ yielded' = Append(yielded, [reads |-> frame.reads, label |-> queue[1][3]])
    /\ queue' = Tail(queue)
    /\ UNCHANGED <<task, cfg, gpc, pulled, segments, resolver_vars, patient_vars, buffer_vars>>

\* The beat generator passes over its next selection.
BeatSkip ==
    /\ gpc = "in_patient" /\ task = "beat"
    /\ queue # <<>>
    /\ \E offset \in beat_offsets(cfg.frame_size) :
        beat_frame(segments[queue[1][1] + 1], queue[1][1], queue[1][2],
                   offset, cfg.frame_size).skip
    /\ reads' = <<>>
    /\ queue' = Tail(queue)
    /\ UNCHANGED <<task, cfg, gpc, pulled, segments, yielded, resolver_vars, patient_vars, buffer_vars>>

\* The heart-rate generator takes the next patient.
RateNextPatient ==
    /\ gpc = "next_patient" /\ task = "hrv"
    /\ pulled < MaxPatients
    /\ segments' \in RatePatients
    /\ gpc' = "in_patient"
    /\ queue' = [k \in 1..cfg.samples_per_patient.val[1] |-> k]
    /\ pulled' = pulled + 1
    /\ reads' = <<>>
    /\ yielded' = <<>>
    /\ UNCHANGED <<task, cfg, resolver_vars, patient_vars, buffer_vars>>

\* The heart-rate generator draws a segment and a frame, reads the frame
\* and yields it with its label, or fails.
RateSample ==
    /\ gpc = "in_patient" /\ task = "hrv"
    /\ queue # <<>>
    /\ IF Len(segments) = 0
       THEN /\ gpc' = "raised"
            /\ UNCHANGED <<reads, yielded, queue>>
       ELSE \E s \in 1..Len(segments) :
                \E sample \in rate_samples(segments[s], s - 1, cfg.frame_size) :
                    /\ reads' = sample.reads
                    /\ IF sample.y.kind = "raise"
                       THEN /\ gpc' = "raised"
                            /\ UNCHANGED <<yielded, queue>>
                       ELSE /\ gpc' = gpc
                            /\ yielded' = Append(yielded, [reads |-> sample.reads,
                                                           label |-> sample.y.val])
                            /\ queue' = Tail(queue)
    /\ UNCHANGED <<task, cfg, pulled, segments, resolver_vars, patient_vars, buffer_vars>>

\* A variant of block_exhausted that leaves the last selection unvisited.
block_exhausted_early(selections) == Len(selections) <= 1

\* The for loop over the patient's selections has visited all of them.
block_exhausted(selections) == selections = <<>>

\* The selections of the patient are used up: the generator goes back to
\* the patient generator and the patient's segments go out of scope.
PatientDone ==
    /\ gpc = "in_patient"
    /\ block_exhausted(queue)
    /\ gpc' = "next_patient"
    /\ segments' = <<>>
    /\ reads' = <<>>
    /\ yielded' = <<>>
    /\ UNCHANGED <<task, cfg, pulled, queue, resolver_vars, patient_vars, buffer_vars>>

\* The patient generator is exhausted: the sample generator ends.
EndOfPatients ==
    /\ gpc = "next_patient"
    /\ pulled = MaxPatients
    /\ gpc' = "done"
    /\ UNCHANGED <<task, cfg, pulled, segments, queue, reads, yielded, resolver_vars, patient_vars, buffer_vars>>

NextGen ==
    \/ task_data_generator
    \/ RhythmNextPatient
    \/ RhythmYield
    \/ BeatNextPatient
    \/ BeatYield
    \/ BeatSkip
    \/ RateNextPatient
    \/ RateSample
    \/ PatientDone
    \/ EndOfPatients

SpecGen == Init /\ [][NextGen]_vars

(***************************************************************************)
(* Properties of the windows the generators read.                          *)
(***************************************************************************)
\* The window w = <<seg_idx, start, end>> read from the current patient's
\* segments lies in the signal of its segment, and so does a stretch of
\* frame_size samples from its start.
WindowInSegment(w) ==
    /\ w[1] + 1 \in 1..Len(segments)
    /\ 0 <= w[2]
    /\ w[2] <= w[3]
    /\ w[3] <= segments[w[1] + 1].size
    /\ w[2] + cfg.frame_size <= segments[w[1] + 1].size

\* C9: every signal window read by the rhythm, the beat and the heart-rate
\* generator starts at or after sample 0 and ends at or before the end of
\* its segment; the beat generator reads three windows at a time (shifted
\* earlier, centered, shifted later) and each of the three does.
C9_WindowsInsideSegment ==
    /\ \A k \in 1..Len(reads) : WindowInSegment(reads[k])
    /\ task = "beat" => Len(reads) \in {0, 3}
    /\ task \in {"arrhythmia", "hrv"} => Len(reads) \in {0, 1}

\* C9 witness: the beat generator has read its three windows, the first
\* earlier than the centered one and the third later.
C9_Witness ==
    /\ task = "beat"
    /\ Len(reads) = 3
    /\ reads[1][2] < reads[2][2]
    /\ reads[2][2] < reads[3][2]
    /\ reads[3][3] = reads[3][2] + cfg.frame_size

(***************************************************************************)
(* Properties of the rhythm generator.                                     *)
(***************************************************************************)
\* A patient of the rhythm generator is being served from a per-class list.
RhythmBlock ==
    /\ task = "arrhythmia"
    /\ gpc = "in_patient"
    /\ cfg.samples_per_patient.type = "list"

\* The rhythm intervals <<seg_idx, start, end>> of class code that hold a
\* whole frame, read off the current patient's label tables: rows 2k-1 and
\* 2k of a table delimit its k-th interval.
QualifyingIntervals(code) ==
    UNION {{<<s - 1, segments[s].rlabels[2 * k - 1][1], segments[s].rlabels[2 * k][1]>> :
                k \in {j \in 1..(Len(segments[s].rlabels) \div 2) :
                        /\ segments[s].rlabels[2 * j - 1][2] = code
                        /\ segments[s].rlabels[2 * j][1]
                              - segments[s].rlabels[2 * j - 1][1] >= cfg.frame_size}} :
           s \in 1..Len(segments)}

\* The window w = <<seg_idx, start, end>> lies in the interval iv.
WindowInside(w, iv) == w[1] = iv[1] /\ iv[2] <= w[2] /\ w[3] <= iv[3]

\* The yields of this patient that are a frame of class tgt_labels[t]: one
\* window of frame_size samples inside a qualifying interval of the class,
\* paired with the class's label.
YieldsOfClass(t) ==
    {k \in 1..Len(yielded) :
        /\ Len(yielded[k].reads) = 1
        /\ yielded[k].reads[1][3] = yielded[k].reads[1][2] + cfg.frame_size
        /\ \E iv \in QualifyingIntervals(tgt_labels[t]) :
                WindowInside(yielded[k].reads[1], iv)
        /\ yielded[k].label = HeartRhythmMap[tgt_labels[t]]}

RequestedOfClass(t) ==
    IF QualifyingIntervals(tgt_labels[t]) = {}
    THEN 0
    ELSE cfg.samples_per_patient.val[t]

\* C10: with a per-class sample list, the rhythm generator yields for every
\* patient, for each target class with a qualifying interval, exactly the
\* requested number of windows, each of frame_size samples inside one
\* qualifying interval of that class and paired with the class's mapped
\* label; it yields nothing else.
C10_RhythmWindowsPerClass ==
    RhythmBlock =>
        /\ \A k \in 1..Len(yielded) : \E t \in 1..Len(tgt_labels) : k \in YieldsOfClass(t)
        /\ \A t \in 1..Len(tgt_labels) :
                Cardinality(YieldsOfClass(t)) <= RequestedOfClass(t)
        /\ queue = <<>> =>
                \A t \in 1..Len(tgt_labels) :
                    Cardinality(YieldsOfClass(t)) = RequestedOfClass(t)

\* C10 witness: a patient with a qualifying normal and a qualifying afib
\* interval has been served its 2 normal windows and 1 afib window.
C10_Witness ==
    /\ RhythmBlock
    /\ queue = <<>>
    /\ cfg.samples_per_patient.val = <<2, 1, 0>>
    /\ Cardinality(YieldsOfClass(1)) = 2
    /\ Cardinality(YieldsOfClass(2)) = 1
    /\ Len(yielded) = 3

(***************************************************************************)
(* Properties of the allocation of samples to the target classes.          *)
(***************************************************************************)
\* The generator was given an integer samples_per_patient.
IntegerRequest ==
    /\ task \in {"arrhythmia", "beat"}
    /\ cfg.samples_per_patient.type = "int"

\* C11: an integer samples_per_patient n >= 1 is resolved by the rhythm and
\* the beat generator into one entry per target class (3 entries), each
\* equal to max(1, floor(n / 3)).
C11_EvenAllocation ==
    IntegerRequest =>
        samples_per_tgt_of(cfg.samples_per_patient, Len(tgt_labels))
            = [t \in 1..Len(tgt_labels) |->
                    Max(1, cfg.samples_per_patient.val[1] \div Len(tgt_labels))]

(***************************************************************************)
(* Properties of the beat generator's candidates.                          *)
(***************************************************************************)
\* The marker at TLA+ position k of the table blabels is normal and so are
\* the markers right before and right after it.
IsolatedNormal(blabels, k) ==
    /\ k - 1 >= 1 /\ k + 1 <= Len(blabels)
    /\ blabels[k - 1][2] = IcentiaBeat_normal
    /\ blabels[k][2] = IcentiaBeat_normal
    /\ blabels[k + 1][2] = IcentiaBeat_normal

\* The selection row = <<seg_idx, sample_index, label>> is a marker of its
\* segment that is normal between two normal markers.
SelectedIsolatedNormal(row) ==
    \E k \in 1..Len(segments[row[1] + 1].blabels) :
        /\ segments[row[1] + 1].blabels[k][1] = row[2]
        /\ IsolatedNormal(segments[row[1] + 1].blabels, k)

\* The centered window of the yield y holds a marker that is normal between
\* two normal markers.
YieldedIsolatedNormal(y) ==
    \E k \in 1..Len(segments[y.reads[2][1] + 1].blabels) :
        /\ y.reads[2][2] <= segments[y.reads[2][1] + 1].blabels[k][1]
        /\ segments[y.reads[2][1] + 1].blabels[k][1] < y.reads[2][3]
        /\ IsolatedNormal(segments[y.reads[2][1] + 1].blabels, k)

\* C12: the beat generator selects a marker as a normal target only if the
\* marker and both its neighbouring markers in the segment are normal; a
\* normal marker with a non-normal neighbour is never yielded as normal.
C12_NormalTargetsIsolated ==
    (task = "beat" /\ gpc = "in_patient") =>
        /\ \A k \in 1..Len(queue) :
                queue[k][3] = HeartBeat_normal => SelectedIsolatedNormal(queue[k])
        /\ \A k \in 1..Len(yielded) :
                yielded[k].label = HeartBeat_normal => YieldedIsolatedNormal(yielded[k])

\* C12 witness: a frame has been yielded with the normal label.
C12_Witness ==
    /\ task = "beat" /\ gpc = "in_patient"
    /\ \E k \in 1..Len(yielded) :
            /\ yielded[k].label = HeartBeat_normal
            /\ YieldedIsolatedNormal(yielded[k])

(***************************************************************************)
(* IcentiaDataset.uniform_patient_generator and random_patient_generator,  *)
(* pulled by a consumer. A generator's body runs from one yield to the     *)
(* next when the consumer calls next().                                    *)
(***************************************************************************)
PatientIds == 0..(MaxPatientIds - 1)

\* Arrays of distinct patient ids.
PatientIdArrays == {a \in SeqsUpTo(PatientIds, MaxPatientIds) :
                        \A i, j \in 1..Len(a) : a[i] = a[j] => i = j}

\* patient_weights: None, or per patient id whether its probability is
\* positive (the probabilities sum to 1, so one of them is).
PatientWeights(ids) ==
    {None} \cup {Some(w) : w \in {f \in [1..Len(ids) -> BOOLEAN] :
                                    \E k \in 1..Len(ids) : f[k]}}

\* size=1024 of np.random.choice
choice_size == 1024

\* The ids np.random.choice(patient_ids, size=1024, p=patient_weights) can
\* put at one position of its result.
choice_support(ids, weights) ==
    IF weights = None
    THEN Range(ids)
    ELSE {ids[k] : k \in {j \in 1..Len(ids) : weights[1][j]}}

\* A variant of h5_open that finds a file for every patient.
h5_open_any(patient_id, files) == Return(patient_id)

\* h5py.File(os.path.join(self.ds_path, f"{pt_key}.h5"), mode="r")
h5_open(patient_id, files) ==
    IF patient_id \in files THEN Return(patient_id) ELSE Raise("FileNotFoundError")

\* A variant of with_enter whose file is closed again before the patient
\* is yielded.
with_enter_released(open_handles, h) == open_handles

\* Entering the with block opens the file.
with_enter(open_handles, h) == open_handles \cup {h}

\* A variant of with_exit that leaves the file open.
with_exit_leak(open_handles, h) == open_handles

\* Leaving the with block closes the file.
with_exit(open_handles, h) == open_handles \ {h}

\* A variant of pass_again that always starts another pass.
pass_again_always(repeat) == TRUE

\* `if not repeat: break` at the end of a pass over the ids
pass_again(repeat) == repeat

\* The orders of the ids a pass of the uniform generator can take.
pass_orders(ids, shuffle) == IF shuffle THEN Shuffles(ids) ELSE {ids}

\* The consumer makes a uniform patient generator; its body does not run
\* before the first next().
uniform_patient_generator ==
    /\ ppc = "none"
    /\ \E ids \in PatientIdArrays, repeat \in BOOLEAN, shuffle \in BOOLEAN :
        pgen' = [kind |-> "uniform", patient_ids |-> ids, repeat |-> repeat,
                 shuffle |-> shuffle, patient_weights |-> None]
    /\ store' \in SUBSET PatientIds
    /\ ppc' = "created"
    /\ UNCHANGED <<order, pos, handles, opened, taken, given, err,
                   resolver_vars, generator_vars, buffer_vars>>

\* The consumer makes a weighted random patient generator.
random_patient_generator ==
    /\ ppc = "none"
    /\ \E ids \in PatientIdArrays :
        \E weights \in PatientWeights(ids) :
            pgen' = [kind |-> "random", patient_ids |-> ids, repeat |-> TRUE,
                     shuffle |-> FALSE, patient_weights |-> weights]
    /\ store' \in SUBSET PatientIds
    /\ ppc' = "created"
    /\ UNCHANGED <<order, pos, handles, opened, taken, given, err,
                   resolver_vars, generator_vars, buffer_vars>>

\* The body of the for loop for patient_id, with the files closed so far:
\* the file is opened and the patient yielded, or the open fails.
VisitPatient(patient_id, still_open) ==
    /\ taken' = Append(taken, patient_id)
    /\ IF h5_open(patient_id, store).kind = "raise"
       THEN /\ ppc' = "raised"
            /\ err' = Some(h5_open(patient_id, store).val)
            /\ handles' = still_open
            /\ UNCHANGED <<opened, given>>
       ELSE /\ ppc' = "suspended"
            /\ opened' = opened + 1
            /\ handles' = with_enter(still_open, opened + 1)
            /\ given' = Append(given, h5_open(patient_id, store).val)
            /\ err' = err

\* The uniform generator starts a pass over its array ids, with the files
\* closed so far: it shuffles if asked to and visits the first id; over an
\* empty array it returns, or loops for ever when it repeats.
StartPass(ids, still_open) ==
    \E next_order \in pass_orders(ids, pgen.shuffle) :
        /\ order' = next_order
        /\ IF Len(next_order) = 0
           THEN /\ ppc' = IF pass_again(pgen.repeat) THEN "spinning" ELSE "returned"
                /\ pos' = 0
                /\ handles' = still_open
                /\ UNCHANGED <<opened, taken, given, err>>
           ELSE /\ pos' = 1
                /\ VisitPatient(next_order[1], still_open)

\* The body of the uniform generator run by one next(): the first call
\* copies the ids and starts a pass; a later call leaves the with block of
\* the patient it yielded and goes on with the next id, the next pass or
\* the return.
UniformBody(first) ==
    IF first
    THEN StartPass(pgen.patient_ids, handles)
    ELSE IF pos < Len(order)
         THEN /\ pos' = pos + 1
              /\ order' = order
              /\ VisitPatient(order[pos + 1], with_exit(handles, opened))
         ELSE IF pass_again(pgen.repeat)
              THEN StartPass(order, with_exit(handles, opened))
              ELSE /\ ppc' = "returned"
                   /\ handles' = with_exit(handles, opened)
                   /\ UNCHANGED <<order, pos, opened, taken, given, err>>

\* next() on the uniform generator.
UniformNext ==
    /\ pgen # <<>> /\ pgen.kind = "uniform"
    /\ ppc \in {"created", "suspended"}
    /\ Len(taken) < MaxDraws
    /\ UniformBody(ppc = "created")
    /\ UNCHANGED <<store, pgen, resolver_vars, generator_vars, buffer_vars>>

\* next() on the random generator: it leaves the with block of the patient
\* it yielded and visits the next id of its batch of choice_size ids, which
\* np.random.choice draws when a batch starts (it raises ValueError for an
\* empty id array).
RandomNext ==
    /\ pgen # <<>> /\ pgen.kind = "random"
    /\ ppc \in {"created", "suspended"}
    /\ Len(taken) < MaxDraws
    /\ LET still_open == IF ppc = "created" THEN handles
                         ELSE with_exit(handles, opened)
           new_batch == ppc = "created" \/ pos = choice_size
       IN  IF new_batch /\ Len(pgen.patient_ids) = 0
           THEN /\ ppc' = "raised"
                /\ err' = Some("ValueError")
                /\ handles' = still_open
                /\ UNCHANGED <<pos, opened, taken, given>>
           ELSE /\ pos' = IF new_batch THEN 1 ELSE pos + 1
                /\ \E patient_id \in choice_support(pgen.patient_ids,
                                                    pgen.patient_weights) :
                        VisitPatient(patient_id, still_open)
    /\ UNCHANGED <<store, pgen, order, resolver_vars, generator_vars, buffer_vars>>

\* close() on the generator: GeneratorExit is raised at the yield and the
\* with block is left; a generator that never ran just ends.
PatientClose ==
    /\ ppc \in {"created", "suspended"}
    /\ ppc' = "closed"
    /\ handles' = IF ppc = "suspended" THEN with_exit(handles, opened) ELSE handles
    /\ UNCHANGED <<store, pgen, order, pos, opened, taken, given, err,
                   resolver_vars, generator_vars, buffer_vars>>

\* The consumer raises while it holds a yielded patient and lets go of the
\* generator.
ConsumerRaises ==
    /\ ppc = "suspended"
    /\ ppc' = "dropped"
    /\ UNCHANGED <<store, pgen, order, pos, handles, opened, taken, given, err,
                   resolver_vars, generator_vars, buffer_vars>>

\* The interpreter finalizes the unreferenced generator, which closes it.
PatientFinalize ==
    /\ ppc = "dropped"
    /\ ppc' = "closed"
    /\ handles' = with_exit(handles, opened)
    /\ UNCHANGED <<store, pgen, order, pos, opened, taken, given, err,
                   resolver_vars, generator_vars, buffer_vars>>

NextPat ==
    \/ uniform_patient_generator
    \/ random_patient_generator
    \/ UniformNext
    \/ RandomNext
    \/ PatientClose
    \/ ConsumerRaises
    \/ PatientFinalize

SpecPat == Init /\ [][NextPat]_vars

(***************************************************************************)
(* Properties of the patient generators.                                   *)
(***************************************************************************)
\* A uniform generator without repeat over patients that all have a file.
UniformOnce ==
    /\ pgen # <<>>
    /\ pgen.kind = "uniform"
    /\ ~pgen.repeat
    /\ Range(pgen.patient_ids) \subseteq store

\* C13: uniform_patient_generator with repeat=False yields every id of the
\* given ids exactly once, in the given order when shuffle=False and in some
\* permutation when shuffle=True, and then ends the sequence.
C13_SinglePass ==
    UniformOnce =>
        /\ ppc \in {"created", "suspended", "dropped", "closed", "returned"}
        /\ Len(given) <= Len(pgen.patient_ids)
        /\ Range(given) \subseteq Range(pgen.patient_ids)
        /\ \A i, j \in 1..Len(given) : given[i] = given[j] => i = j
        /\ ~pgen.shuffle => given = SubSeq(pgen.patient_ids, 1, Len(given))
        /\ ppc = "returned" => Range(given) = Range(pgen.patient_ids)

\* C13 witness: a shuffled single pass over all the patients has ended, in
\* an order that is not the given one.
C13_Witness ==
    /\ UniformOnce
    /\ pgen.shuffle
    /\ ppc = "returned"
    /\ Len(pgen.patient_ids) = MaxPatientIds
    /\ Len(given) = MaxPatientIds
    /\ given # pgen.patient_ids

C15_MissingPatientAborts ==
    /\ \A k \in 1..Len(given) : given[k] \in store
    /\ Len(given) <= Len(taken)
    /\ given = SubSeq(taken, 1, Len(given))
    /\ Len(taken) > Len(given) =>
            /\ Len(taken) = Len(given) + 1
            /\ taken[Len(taken)] \notin store
            /\ ppc = "raised"
            /\ err = Some("FileNotFoundError")
    /\ (ppc = "raised" /\ err = Some("FileNotFoundError")) => Len(taken) > Len(given)

\* C15 witness: the uniform generator failed on a patient without a file
\* after it had yielded one, with a patient that has a file still to come.
C15_Witness ==
    /\ ppc = "raised"
    /\ err = Some("FileNotFoundError")
    /\ pgen.kind = "uniform"
    /\ Len(given) >= 1
    /\ pos < Len(order)
    /\ order[pos + 1] \in store

(***************************************************************************)
(* IcentiaDataset._split_train_test_patients                               *)
(***************************************************************************)
\* The elements of a set of numbers as a sorted array.
RECURSIVE sorted_array(_)
sorted_array(S) ==
    IF S = {}
    THEN <<>>
    ELSE LET least == CHOOSE x \in S : \A y \in S : x <= y
         IN  <<least>> \o sorted_array(S \ {least})

\* np.intersect1d, np.setdiff1d: sorted arrays of unique values
intersect1d(a, b) == sorted_array(Range(a) \cap Range(b))

setdiff1d(a, b) == sorted_array(Range(a) \ Range(b))

\* ceil(test_size * n_samples), for test_size = num / den
n_test_of(n_samples, test_size) ==
    (n_samples * test_size[1] + test_size[2] - 1) \div test_size[2]

n_train_of(n_samples, test_size) == n_samples - n_test_of(n_samples, test_size)

\* A variant of train_part that starts at the front of the permutation.
train_part_front(permutation, n_test, n_train) == SubSeq(permutation, 1, n_train)

\* permutation[n_test:(n_test + n_train)] and permutation[:n_test]
train_part(permutation, n_test, n_train) ==
    SubSeq(permutation, n_test + 1, n_test + n_train)

test_part(permutation, n_test) == SubSeq(permutation, 1, n_test)

\* sklearn.model_selection.train_test_split(arr, test_size=test_size) with a
\* fractional test_size: ValueError when the train part would be empty,
\* else the <<train, test>> pairs a random permutation can give.
train_test_split(arr, test_size) ==
    LET n_test == n_test_of(Len(arr), test_size)
        n_train == n_train_of(Len(arr), test_size)
    IN  IF n_train = 0
        THEN Raise("ValueError")
        ELSE Return({<<train_part(q, n_test, n_train), test_part(q, n_test)>> :
                        q \in Shuffles(arr)})

\* The outcomes of _split_train_test_patients for the dataset's task.
_split_train_test_patients(dataset_task, arr_rhythm_patients, patient_ids, test_size) ==
    IF dataset_task = "arrhythmia"
    THEN LET arr_pt_ids == intersect1d(arr_rhythm_patients, patient_ids)
             norm_pt_ids == setdiff1d(patient_ids, arr_pt_ids)
             norm_split == train_test_split(norm_pt_ids, test_size)
             arr_split == train_test_split(arr_pt_ids, test_size)
         IN  IF norm_split.kind = "raise" THEN {norm_split}
             ELSE IF arr_split.kind = "raise" THEN {arr_split}
             ELSE UNION {{Return(<<train_pt_ids, val_pt_ids>>) :
                            train_pt_ids \in Shuffles(norm[1] \o arr[1]),
                            val_pt_ids \in Shuffles(norm[2] \o arr[2])} :
                         norm \in norm_split.val, arr \in arr_split.val}
    ELSE LET split == train_test_split(patient_ids, test_size)
         IN  IF split.kind = "raise" THEN {split}
             ELSE {Return(pair) : pair \in split.val}

SplitIds == 0..(MaxSplitIds - 1)

\* test_size as <<numerator, denominator>>: 0.2 and 0.5
TestSizes == {<<1, 5>>, <<1, 2>>}

Call_split_train_test_patients ==
    /\ op = "none"
    /\ \E dataset_task \in {"arrhythmia", "beat"}, ids \in SUBSET SplitIds,
          test_size \in TestSizes :
        \E arr \in IF dataset_task = "arrhythmia" THEN SUBSET SplitIds ELSE {{}} :
            /\ op' = "_split_train_test_patients"
            /\ args' = [task |-> dataset_task,
                        arr_rhythm_patients |-> sorted_array(arr),
                        patient_ids |-> sorted_array(ids), test_size |-> test_size]
            /\ ret' \in _split_train_test_patients(dataset_task, sorted_array(arr),
                                                   sorted_array(ids), test_size)
            /\ UNCHANGED <<generator_vars, patient_vars, buffer_vars>>

(***************************************************************************)
(* IcentiaDataset.rhythm_data_generator on rhythm label tables of any      *)
(* shape.                                                                  *)
(***************************************************************************)
\* The tables of n rows <<sample_index, code>> with sample indices from lo
\* on that do not decrease.
RECURSIVE RowsFrom(_, _)
RowsFrom(n, lo) ==
    IF n = 0
    THEN {<<>>}
    ELSE UNION {{<<(<<i, code>>)>> \o rest :
                    code \in RhythmCodes, rest \in RowsFrom(n - 1, i)} :
                i \in lo..MaxMark}

RhythmTables == UNION {RowsFrom(n, 0) : n \in 0..MaxRows}

\* The body of the rhythm generator's loop for one patient of one segment:
\* the frames <<seg_idx, frame_start, frame_end, label>> it yields, in the
\* order it yields them, or the exception it raises.
Call_rhythm_seg_samples ==
    /\ op = "none"
    /\ \E rlabels \in RhythmTables :
        LET segs == <<[size |-> MaxMark + 1, rlabels |-> rlabels, blabels |-> <<>>]>>
            seg_samples == rhythm_seg_samples(segs, 2, <<1, 1, 1>>)
        IN  /\ op' = "rhythm_data_generator"
            /\ args' = [segments |-> segs, frame_size |-> 2,
                        samples_per_patient |-> <<1, 1, 1>>]
            /\ ret' \in IF seg_samples.kind = "raise"
                        THEN {seg_samples}
                        ELSE {Return(q) : q \in seg_samples.val}
    /\ UNCHANGED <<generator_vars, patient_vars, buffer_vars>>

(***************************************************************************)
(* The calls of the dataset's functions on bounded inputs.                 *)
(***************************************************************************)
Next ==
    \/ Call_get_complete_beats
    \/ Call_get_rhythm_label
    \/ Call_get_beat_label
    \/ Call_get_heart_rate_label
    \/ Call_split_train_test_patients
    \/ Call_rhythm_seg_samples

Spec == Init /\ [][Next]_vars

(***************************************************************************)
(* Properties of the train/validation split.                               *)
(***************************************************************************)
SplitCalled == op = "_split_train_test_patients"

\* The number of entries of the array a that are in the set S.
CountIn(a, S) == Cardinality({k \in 1..Len(a) : a[k] \in S})

\* C16: the two arrays _split_train_test_patients returns, on the stratified
\* arrhythmia path and on the plain path, are disjoint and hold between them
\* exactly the given patient ids, each once.
C16_SplitIsPartition ==
    (SplitCalled /\ ret.kind = "return") =>
        /\ Range(ret.val[1]) \cap Range(ret.val[2]) = {}
        /\ Range(ret.val[1]) \cup Range(ret.val[2]) = Range(args.patient_ids)
        /\ Len(ret.val[1]) + Len(ret.val[2]) = Len(args.patient_ids)

\* C16 witness: a stratified split of carriers and non-carriers returned.
C16_Witness ==
    /\ SplitCalled
    /\ args.task = "arrhythmia"
    /\ ret.kind = "return"
    /\ Len(ret.val[1]) >= 2
    /\ Len(ret.val[2]) >= 2

\* The patients of the split that carry the rare rhythms.
Carriers == Range(args.arr_rhythm_patients) \cap Range(args.patient_ids)

\* count is test_size * total within rounding.
WithinRounding(count, total) ==
    /\ count * args.test_size[2] - total * args.test_size[1] < args.test_size[2]
    /\ total * args.test_size[1] - count * args.test_size[2] < args.test_size[2]

\* C17: for the arrhythmia task the split succeeds for every number k >= 0
\* of rare-event carriers, the validation array holds test_size * k of them
\* within rounding and the train array the rest; likewise for the others.
C17_StratifiedSplit ==
    (SplitCalled /\ args.task = "arrhythmia") =>
        /\ ret.kind = "return"
        /\ WithinRounding(CountIn(ret.val[2], Carriers), Cardinality(Carriers))
        /\ CountIn(ret.val[1], Carriers) + CountIn(ret.val[2], Carriers)
                = Cardinality(Carriers)
        /\ WithinRounding(CountIn(ret.val[2], Range(args.patient_ids) \ Carriers),
                          Len(args.patient_ids) - Cardinality(Carriers))

(***************************************************************************)
(* Properties of the generators on patients with few labels.               *)
(***************************************************************************)
\* The rhythm or the beat generator was given a list with an entry per
\* target class.
ListRequest ==
    /\ task \in {"arrhythmia", "beat"}
    /\ cfg.samples_per_patient.type = "list"

\* The labels of the current patient's selections, visited or not.
SelectedLabels ==
    {yielded[k].label : k \in 1..Len(yielded)}
        \cup {queue[k][Len(queue[k])] : k \in 1..Len(queue)}

\* The beat table has no marker outside its two paddings.
FewMarkers(blabels) == Len(blabels) <= 2 * blabel_padding

\* C18: a patient or segment without qualifying intervals or beats for a
\* target class (none for any class, an empty label table, 40 or fewer beat
\* markers) contributes no sample for the class and the rhythm and beat
\* generators go on; no error is raised for it.
C18_SparsityIsNoError ==
    ListRequest =>
        /\ gpc # "raised"
        /\ (task = "arrhythmia" /\ gpc = "in_patient") =>
                /\ QualifyingIntervals(IcentiaRhythm_normal) = {}
                        => HeartRhythm_normal \notin SelectedLabels
                /\ (QualifyingIntervals(IcentiaRhythm_afib) = {}
                        /\ QualifyingIntervals(IcentiaRhythm_aflut) = {})
                        => HeartRhythm_afib \notin SelectedLabels
        /\ (task = "beat" /\ gpc = "in_patient") =>
                /\ \A t \in 1..Len(tgt_beat_labels) :
                        tgt_beats_of(segments, tgt_beat_labels[t]) = {}
                            => HeartBeatMap[tgt_beat_labels[t]] \notin SelectedLabels
                /\ \A k \in 1..Len(yielded) :
                        ~FewMarkers(segments[yielded[k].reads[2][1] + 1].blabels)

\* C18 witness: the beat generator, past its first patient, serves a patient
\* whose first segment has too few markers and has yielded a frame of the
\* second.
C18_Witness ==
    /\ ListRequest
    /\ task = "beat" /\ gpc = "in_patient"
    /\ pulled = 2
    /\ Len(segments) = 2
    /\ FewMarkers(segments[1].blabels)
    /\ yielded # <<>>

(***************************************************************************)
(* Properties of the rhythm generator on malformed label tables.           *)
(***************************************************************************)
\* The rows of the table pair up as the start and the end of an interval:
\* an even number of rows, each pair with one code and its start not after
\* its end.
EvenIntervals(rlabels) ==
    /\ Len(rlabels) % 2 = 0
    /\ \A k \in 1..(Len(rlabels) \div 2) :
            /\ rlabels[2 * k - 1][2] = rlabels[2 * k][2]
            /\ rlabels[2 * k - 1][1] <= rlabels[2 * k][1]

\* C19: when a segment's rhythm label table violates the even-interval
\* structure, the rhythm generator raises an error and yields no window
\* computed from mis-paired rows.
C19_MalformedTableRaises ==
    (op = "rhythm_data_generator" /\ ~EvenIntervals(args.segments[1].rlabels))
        => ret.kind = "raise"

(***************************************************************************)
(* Properties of the size of the yielded windows.                          *)
(***************************************************************************)
\* The number of samples in the windows of a yield, each inside its signal.
RECURSIVE SamplesRead(_)
SamplesRead(windows) ==
    IF windows = <<>>
    THEN 0
    ELSE (windows[1][3] - windows[1][2]) + SamplesRead(Tail(windows))

\* C20: every window the rhythm and the heart-rate generator yield holds
\* exactly frame_size samples and every window the beat generator yields
\* holds exactly 3 * frame_size samples, for odd and for even frame_size.
C20_WindowWidths ==
    \A k \in 1..Len(yielded) :
        /\ task \in {"arrhythmia", "hrv"} =>
                SamplesRead(yielded[k].reads) = cfg.frame_size
        /\ task = "beat" => SamplesRead(yielded[k].reads) = 3 * cfg.frame_size

(***************************************************************************)
(* Properties of the beat generator's shift.                               *)
(***************************************************************************)
\* The differences between consecutive markers of the table blabels in the
\* 15-second lookback and lookahead of the frame [frame_start, frame_end).
LookaroundDiffs(blabels, frame_start, frame_end) ==
    LET positions == column(blabels, 0)
        first == searchsorted(positions, Max(0, frame_start - rr_win_len), "left")
        last == searchsorted(positions, frame_end + rr_win_len, "left")
    IN  diff(column(PySlice(blabels, first, last + 1), 0))

\* A difference between 0.6 s and 2.0 s worth of samples.
Validated(d) == d > rr_min_len /\ d < rr_max_len

\* The integer mean of the validated differences.
ValidatedMean(diffs) ==
    SumSeq(SelectSeq(diffs, Validated)) \div Len(SelectSeq(diffs, Validated))

\* The beat generator has read the three windows of a selection.
BeatFrameRead == task = "beat" /\ Len(reads) = 3

\* C21: the shift avg_rr between the centered window and the earlier and
\* later windows of the beat generator is the integer mean of only those
\* consecutive-marker differences of the lookback and lookahead that pass
\* validation; differences outside that range do not change it.
C21_ShiftIsValidatedMean ==
    BeatFrameRead =>
        LET diffs == LookaroundDiffs(segments[reads[2][1] + 1].blabels,
                                     reads[2][2], reads[2][3])
        IN  /\ reads[2][2] - reads[1][2] = ValidatedMean(diffs)
            /\ reads[3][2] - reads[2][2] = ValidatedMean(diffs)

(***************************************************************************)
(* Properties of the heart-rate generator.                                 *)
(***************************************************************************)
\* The heart-rate generator holds a patient whose segments are all at least
\* frame_size samples long.
RatePatientHeld ==
    /\ task = "hrv"
    /\ segments # <<>>
    /\ \A s \in 1..Len(segments) : segments[s].size >= cfg.frame_size

\* C22: for every patient of the heart-rate generator whose segments are
\* all at least frame_size samples long, a segment of exactly frame_size
\* samples and windows with any number of beat markers included, the
\* generator does not fail and yields exactly samples_per_patient pairs,
\* each labelled with one of the four heart-rate buckets, before it pulls
\* the next patient.
C22_RateSamplesPerPatient ==
    RatePatientHeld =>
        /\ gpc # "raised"
        /\ Len(yielded) + Len(queue) = cfg.samples_per_patient.val[1]
        /\ \A k \in 1..Len(yielded) : yielded[k].label \in HeartRate

(***************************************************************************)
(* Properties of the order of the yielded samples.                         *)
(***************************************************************************)
\* The rhythm or the beat generator runs.
SelectionTask == task \in {"arrhythmia", "beat"}

\* The label of a selection, its last component.
SelectionLabel(row) == row[Len(row)]

\* C23: in the rhythm and beat generators all selections of a patient are
\* drawn and shuffled before the first one is yielded and the output is a
\* concatenation of per-patient blocks. The list of selections is fixed
\* when the patient is pulled and is only used up from its head afterwards,
\* every sample yielded is the one of the head of that list and is read
\* from the current patient's segments, and the next patient is pulled only
\* after the list of the current patient is exhausted.
C23_PatientBlocks ==
    [][SelectionTask =>
        /\ pulled' # pulled => (queue = <<>> /\ yielded' = <<>>)
        /\ pulled' = pulled =>
            \/ queue' = queue
            \/ queue # <<>> /\ queue' = Tail(queue)
        /\ (yielded' # yielded /\ yielded' # <<>>) =>
            /\ pulled' = pulled
            /\ segments' = segments
            /\ queue # <<>>
            /\ queue' = Tail(queue)
            /\ Len(yielded') = Len(yielded) + 1
            /\ yielded'[Len(yielded')].label = SelectionLabel(queue[1])
            /\ \A k \in 1..Len(reads') : reads'[k][1] = queue[1][1]]_vars

\* C23 witness: the generator serves its second patient and has yielded
\* one sample of a block of several selections, with more to come.
C23_Witness ==
    /\ SelectionTask
    /\ pulled >= 2
    /\ gpc = "in_patient"
    /\ yielded # <<>>
    /\ queue # <<>>

(***************************************************************************)
(* buffered_generator (src/heartkit/datasets/utils.py)                     *)
(*                                                                         *)
(* The source is an iterator over the elements `generator`; `consumed` is  *)
(* the number of elements the two for loops have taken from it together,   *)
(* the second loop going on where the first one stopped.                   *)
(***************************************************************************)
\* The elements a source can yield.
SourceElements == {0, 1}

\* The first for loop from position k of the source on: every element is
\* appended, and the loop is left when the buffer holds buffer_size
\* elements or the source is exhausted. The result is the buffer and the
\* number of elements taken.
RECURSIVE fill_buffer(_, _, _, _)
fill_buffer(buf, src, k, size) ==
    IF k >= Len(src)
    THEN [buffer |-> buf, consumed |-> k]
    ELSE IF Len(buf) + 1 = size
         THEN [buffer |-> Append(buf, src[k + 1]), consumed |-> k + 1]
         ELSE fill_buffer(Append(buf, src[k + 1]), src, k + 1, size)

\* A variant of replace_oldest that keeps the oldest element.
replace_oldest_kept(buf, e) == buf \o <<e>>

\* buffer[1:] + [e]
replace_oldest(buf, e) == PySlice(buf, 1, Len(buf)) \o <<e>>

\* The consumer makes a buffered generator over a source; its body does not
\* run before the first next().
buffered_generator ==
    /\ bpc = "none"
    /\ generator' \in SeqsUpTo(SourceElements, MaxSource)
    /\ buffer_size' \in 0..MaxBuffer
    /\ bpc' = "created"
    /\ UNCHANGED <<consumed, buffer, buffers,
                   resolver_vars, generator_vars, patient_vars>>

\* The first next(): the first loop fills the buffer, which is yielded.
BufferedFirst ==
    /\ bpc = "created"
    /\ LET filled == fill_buffer(<<>>, generator, 0, buffer_size)
       IN  /\ buffer' = filled.buffer
           /\ consumed' = filled.consumed
           /\ buffers' = Append(buffers, filled.buffer)
    /\ bpc' = "suspended"
    /\ UNCHANGED <<generator, buffer_size,
                   resolver_vars, generator_vars, patient_vars>>

\* A later next(): the second loop takes the next element of the source,
\* if there is one, and yields the buffer with it in place of the oldest
\* element; the generator returns when the source is exhausted.
BufferedNext ==
    /\ bpc = "suspended"
    /\ IF consumed < Len(generator)
       THEN /\ buffer' = replace_oldest(buffer, generator[consumed + 1])
            /\ consumed' = consumed + 1
            /\ buffers' = Append(buffers, buffer')
            /\ bpc' = bpc
       ELSE /\ bpc' = "returned"
            /\ UNCHANGED <<consumed, buffer, buffers>>
    /\ UNCHANGED <<generator, buffer_size,
                   resolver_vars, generator_vars, patient_vars>>

NextBuf ==
    \/ buffered_generator
    \/ BufferedFirst
    \/ BufferedNext

SpecBuf == Init /\ [][NextBuf]_vars

(***************************************************************************)
(* Properties of buffered_generator.                                       *)
(***************************************************************************)
\* C24: buffered_generator(source, buffer_size) with buffer_size >= 1 over
\* a source e1..en first yields [e1..e_min(n, buffer_size)] and then, for
\* each further source element, a buffer of exactly buffer_size elements,
\* the most recent buffer_size source elements in source order; it yields
\* max(1, n - buffer_size + 1) buffers in total and never a buffer longer
\* than buffer_size.
C24_SlidingBuffer ==
    (bpc \in {"suspended", "returned"} /\ buffer_size >= 1) =>
        /\ buffers # <<>>
        /\ buffers[1] = SubSeq(generator, 1, Min(Len(generator), buffer_size))
        /\ \A k \in 2..Len(buffers) :
            /\ Len(buffers[k]) = buffer_size
            /\ buffers[k] = SubSeq(generator, k, k + buffer_size - 1)
        /\ \A k \in 1..Len(buffers) : Len(buffers[k]) <= buffer_size
        /\ bpc = "returned" =>
            Len(buffers) = Max(1, Len(generator) - buffer_size + 1)

\* C24 witness: the generator returned after it slid a buffer of two or
\* more elements over a longer source at least twice.
C24_Witness ==
    /\ bpc = "returned"
    /\ buffer_size >= 2
    /\ Len(generator) >= buffer_size + 2
    /\ Len(buffers) >= 3
    /\ buffers[3] # buffers[2]

(***************************************************************************)
(* A task sample generator over a uniform patient generator:               *)
(* task_data_generator(patient_generator=uniform_patient_generator(...)).  *)
(* The segments the task generator holds are the group of the file the     *)
(* patient generator opened last.                                          *)
(***************************************************************************)
\* The data the files of the dataset directory can hold for a patient.
StoredPatients(t) ==
    IF t = "arrhythmia"
    THEN {<<RhythmSegment(<<(<<0, 2, IcentiaRhythm_afib>>)>>),
            RhythmSegment(<<(<<0, 2, IcentiaRhythm_normal>>)>>)>>}
    ELSE IF t = "beat"
         THEN {<<BeatSegment(beat_table(1, gaps, IcentiaBeat_normal,
                                        <<IcentiaBeat_normal, IcentiaBeat_normal,
                                          IcentiaBeat_normal>>), 500)>> :
                    gaps \in {<<200, 200, 200>>, <<1, 1, 1>>}}
         ELSE {<<[size |-> 6, rlabels |-> <<>>,
                  blabels |-> <<(<<1, IcentiaBeat_normal>>)>>]>>}

\* The frame_size and samples_per_patient of the task generator.
PipeConfigs(t) ==
    IF t = "arrhythmia"
    THEN {[frame_size |-> 2, samples_per_patient |-> [type |-> "list", val |-> <<1, 1, 1>>]]}
    ELSE IF t = "beat"
         THEN {[frame_size |-> 10,
                samples_per_patient |-> [type |-> "list", val |-> <<1, 1, 1>>]]}
         ELSE {[frame_size |-> 4, samples_per_patient |-> [type |-> "int", val |-> <<1>>]]}

\* What the task generator draws when it is handed a patient: the lists its
\* selections can be, or the exception raised while they are drawn. The
\* heart-rate generator draws nothing ahead, it counts its samples.
selections_of(t, patient, c) ==
    IF t = "arrhythmia"
    THEN rhythm_seg_samples(patient, c.frame_size,
                            samples_per_tgt_of(c.samples_per_patient, Len(tgt_labels)))
    ELSE IF t = "beat"
         THEN beat_selections(patient,
                              samples_per_tgt_of(c.samples_per_patient,
                                                 Len(tgt_beat_labels)))
         ELSE Return({[k \in 1..c.samples_per_patient.val[1] |-> k]})

\* The arrays of patient ids handed to the patient generator: none, one
\* or two patients.
PipeIdArrays == {a \in PatientIdArrays : Len(a) <= 2}

\* A uniform patient generator is made and handed to the generator of the
\* dataset's task; neither body runs before the first next().
task_data_generator_over_patients ==
    /\ gpc = "new" /\ ppc = "none"
    /\ \E t \in {"arrhythmia", "beat", "hrv"} :
        \E c \in PipeConfigs(t) :
            /\ task' = t
            /\ cfg' = c
    /\ \E ids \in PipeIdArrays, repeat \in BOOLEAN, shuffle \in BOOLEAN :
        pgen' = [kind |-> "uniform", patient_ids |-> ids, repeat |-> repeat,
                 shuffle |-> shuffle, patient_weights |-> None]
    /\ store' \in {PatientIds, PatientIds \ {0}}
    /\ gpc' = "next_patient"
    /\ ppc' = "created"
    /\ UNCHANGED <<pulled, segments, queue, reads, yielded,
                   order, pos, handles, opened, taken, given, err,
                   resolver_vars, buffer_vars>>

\* `for _, segments in patient_generator`: the task generator resumes the
\* patient generator. With a patient yielded it draws the patient's
\* selections; when the patient generator returns the task generator ends,
\* when it raises the exception passes through the task generator, and
\* when it never comes back neither does the task generator.
PipeNextPatient ==
    /\ gpc = "next_patient"
    /\ pgen # <<>> /\ pgen.kind = "uniform"
    /\ ppc \in {"created", "suspended"}
    /\ Len(taken) < MaxDraws
    /\ UniformBody(ppc = "created")
    /\ IF ppc' = "suspended"
       THEN \E patient \in StoredPatients(task) :
                LET drawn == selections_of(task, patient, cfg)
                IN  /\ segments' = patient
                    /\ IF drawn.kind = "raise"
                       THEN gpc' = "raised" /\ queue' = <<>>
                       ELSE gpc' = "in_patient" /\ queue' \in drawn.val
       ELSE /\ segments' = <<>>
            /\ queue' = <<>>
            /\ gpc' = IF ppc' = "returned" THEN "done"
                      ELSE IF ppc' = "raised" THEN "raised" ELSE gpc
    /\ pulled' = Len(given')
    /\ reads' = <<>>
    /\ yielded' = <<>>
    /\ UNCHANGED <<task, cfg, store, pgen, resolver_vars, buffer_vars>>

NextPipe ==
    \/ task_data_generator_over_patients
    \/ PipeNextPatient
    \/ RhythmYield
    \/ BeatYield
    \/ BeatSkip
    \/ RateSample
    \/ PatientDone

SpecPipe == Init /\ [][NextPipe]_vars

(***************************************************************************)
(* Properties of the store handle under a task generator.                  *)
(***************************************************************************)
\* The file of the patient the task generator was handed last is open.
CurrentHandleOpen == opened >= 1 /\ opened \in handles

\* C25: every read of a segment's signal or label table by a task generator
\* (rhythm, beat, heart rate) happens while that patient's store handle is
\* open: while the task generator holds a patient's segments, has selections
\* of the patient left or has just read a window, the handle opened for
\* that patient is open and the patient generator is suspended at its
\* yield; the handle is closed only after the last sample of the patient.
C25_ReadsWhileHandleOpen ==
    /\ gpc = "in_patient" => (CurrentHandleOpen /\ ppc = "suspended")
    /\ segments # <<>> => CurrentHandleOpen
    /\ queue # <<>> => CurrentHandleOpen
    /\ reads # <<>> => CurrentHandleOpen
    /\ handles \subseteq {opened}

\* C25 witness: the task generator has read a window of the second patient
\* it was handed, whose handle is the only one open.
C25_Witness ==
    /\ gpc = "in_patient"
    /\ reads # <<>>
    /\ opened >= 2
    /\ handles = {opened}
    /\ yielded # <<>>

(***************************************************************************)
(* The uniform patient generator with the call of next() and its return    *)
(* as separate steps: between them the generator's body runs.              *)
(***************************************************************************)
\* The consumer calls next() on the uniform generator.
UniformRequest ==
    /\ pgen # <<>> /\ pgen.kind = "uniform"
    /\ ppc \in {"created", "suspended"}
    /\ Len(taken) < MaxDraws
    /\ ppc' = IF ppc = "created" THEN "starting" ELSE "resuming"
    /\ UNCHANGED <<store, pgen, order, pos, handles, opened, taken, given, err,
                   resolver_vars, generator_vars, buffer_vars>>

\* The body runs up to its next yield, its return or an exception, or it
\* enters a pass of the while loop that yields nothing.
UniformRun ==
    /\ ppc \in {"starting", "resuming"}
    /\ UniformBody(ppc = "starting")
    /\ UNCHANGED <<store, pgen, resolver_vars, generator_vars, buffer_vars>>

\* `while True` over an empty array with repeat: the shuffle and the for
\* loop do nothing and the next pass starts, in the same state.
UniformSpin ==
    /\ ppc = "spinning"
    /\ Len(order) = 0 /\ pass_again(pgen.repeat)
    /\ UNCHANGED vars

NextPatLive ==
    \/ uniform_patient_generator
    \/ UniformRequest
    \/ UniformRun
    \/ UniformSpin

\* The interpreter keeps running the body of a generator that was resumed;
\* nothing obliges the consumer to call next().
SpecPatLive == Init /\ [][NextPatLive]_vars /\ WF_vars(UniformRun)

(***************************************************************************)
(* Properties of the termination of next().                                *)
(***************************************************************************)
\* A call of next() on a uniform generator whose patients all have a file
\* is under way.
NextCalled ==
    /\ ppc \in {"starting", "resuming", "spinning"}
    /\ Range(pgen.patient_ids) \subseteq store

\* The call has returned, with a patient yielded or the sequence ended.
NextReturned == ppc \in {"suspended", "returned"}

\* C26: every request for the next element of uniform_patient_generator
\* eventually returns, by yielding a (patient id, segments) pair or by
\* ending the sequence, for every patient id set, the empty one included,
\* and for repeat=True as well as repeat=False.
C26_NextReturns == NextCalled ~> NextReturned

====
